---------------------------- MODULE Spec2Model ----------------------------
(***************************************************************************)
(* A model of the SABER core: the ring buffer and the timestamped audio    *)
(* buffer (src/src/core_audio/buffer.hpp), the mesh packet engine          *)
(* (src/src/protocol/mesh.cpp), the sync manager                             *)
(* (src/src/protocol/sync.cpp), the sync engine                            *)
(* (src/src/core_audio/sync_engine.cpp) and the mesh cryptography          *)
(* (src/src/protocol/crypto.cpp).                                          *)
(*                                                                         *)
(* Each subsystem has its own variables and its own specification; a       *)
(* specification leaves the variables of the other subsystems unchanged.   *)
(***************************************************************************)
EXTENDS Integers, Sequences, FiniteSets, TLC

VARIABLES
    ring,       \* RingBuffer<T>: buffer_, capacity_, write_pos_, read_pos_, size_
    rlast,      \* the last RingBuffer call: its arguments, its result, the ring before it
    rflow,      \* the elements write accepted minus those read returned, counted
                \* from construction or from the last clear
    ab,         \* AudioBuffer: its fields, the inner ring included
    alast,      \* the last AudioBuffer call
    aprev,      \* the call before the last one, when it was a write_samples into an empty buffer
    aghost,     \* bookkeeping of the frames written and consumed since the ring was last empty
    serial,     \* the number of samples handed to write_samples so far (labels the samples)
    running,          \* MeshNetwork::running
    networkMutex,     \* the thread that holds networkMutex, or "free"
    queueMutex,       \* the thread that holds queueMutex, or "free"
    packetQueue,      \* MeshNetwork::packetQueue
    packetHandler,    \* MeshNetwork::packetHandler: "none" (empty), "ok" or "throws"
    nodes,            \* MeshNetwork::nodes
    networkThread,    \* MeshNetwork::networkThread: "null", "joinable" or "joined"
    wpc,              \* where the dispatch worker is in runNetworkLoop / processPacket
    packetsToProcess, \* the worker's drained batch
    widx,             \* the worker's position in the batch
    cpc,              \* where each calling thread is in stop()
    delivered,        \* the packets the handler was invoked with, in order
    nsent,            \* the number of packets appended by sendPacket so far
    terminated,       \* "no", or why std::terminate ended the process
    clock,            \* std::chrono::steady_clock, in seconds
    heard,            \* per node id, when the worker last processed a Ping or Status from it
    listing,          \* the last result of getActiveNodes
    startlog,         \* the calls of start counted: those that spawned, those that returned early
    timeOffset,       \* SyncManager: *timeOffset
    lastBeacon,       \* SyncManager: *lastBeacon, <<>> when it has no value
    nodeLatencies,    \* SyncManager: *nodeLatencies, a function on the recorded node ids
    isSynced,         \* SyncManager: *isSynced
    wall,             \* std::chrono::system_clock, in milliseconds
    spc,              \* where the thread that calls emergencySync is in it
    sbeacon,          \* the beacon handled last: its master time and the wall clock read for it
    slast,            \* the last SyncManager call that returned: its argument and result
    engine,           \* SyncEngine: its fields, the AudioStream it owns included
    everStopped,      \* whether a call of SyncEngine::stop has stopped the engine
    elast,            \* the last SyncEngine call: its argument, its result, what it threw
    pa,               \* the last invocation of the device callback: its arguments and its output
    astream,          \* an AudioStream used on its own: its buffer and its flags
    crypto,           \* per MeshCrypto instance: networkKey, signingKeys, knownPublicKeys, nonceCounter
    cwall,            \* std::chrono::system_clock as MeshCrypto::currentTimestamp reads it, in ms
    envelope,         \* the output of the last encrypt, as it reaches decrypt
    securityToken,    \* the output of the last generateSecurityToken
    clast,            \* the last MeshCrypto call: its result, what it threw, what it was given
    marked,           \* the nonce of one earlier encrypt call
    cab,              \* an AudioBuffer used by several threads: mutex_, buffer_, the threads' positions
    gcall,            \* the last get_fill_level / get_latency_ms that returned
    facade,           \* SaberProtocol: audioSync and its fields, runtimeThread, the caller's position
    flast             \* the last SaberProtocol / AudioSync call that returned

ringVars  == <<ring, rlast, rflow>>
audioVars == <<ab, alast, aprev, aghost, serial>>
meshVars  == <<running, networkMutex, queueMutex, packetQueue, packetHandler, nodes,
               networkThread, wpc, packetsToProcess, widx, cpc, delivered, nsent,
               terminated, clock, heard, listing, startlog>>
syncVars  == <<timeOffset, lastBeacon, nodeLatencies, isSynced, wall, spc, sbeacon, slast>>
engineVars == <<engine, everStopped, elast, pa, astream>>
cryptoVars == <<crypto, cwall, envelope, securityToken, clast, marked>>
raceVars  == <<cab, gcall>>
facadeVars == <<facade, flast>>
notRing   == <<audioVars, meshVars, syncVars, engineVars, cryptoVars,
               raceVars, facadeVars>>
notAudio  == <<ringVars, meshVars, syncVars, engineVars, cryptoVars,
               raceVars, facadeVars>>
notMesh   == <<ringVars, audioVars, syncVars, engineVars, cryptoVars,
               raceVars, facadeVars>>
notSync   == <<ringVars, audioVars, meshVars, engineVars, cryptoVars,
               raceVars, facadeVars>>
notEngine == <<ringVars, audioVars, meshVars, syncVars, cryptoVars,
               raceVars, facadeVars>>
notCrypto == <<ringVars, audioVars, meshVars, syncVars, engineVars,
               raceVars, facadeVars>>
notRace   == <<ringVars, audioVars, meshVars, syncVars, engineVars, cryptoVars, facadeVars>>
notFacade == <<ringVars, audioVars, meshVars, engineVars, cryptoVars, raceVars>>
vars      == <<ring, rlast, rflow, ab, alast, aprev, aghost, serial,
               running, networkMutex, queueMutex, packetQueue, packetHandler, nodes,
               networkThread, wpc, packetsToProcess, widx, cpc, delivered, nsent,
               terminated, clock, heard, listing, startlog,
               timeOffset, lastBeacon, nodeLatencies, isSynced, wall, spc, sbeacon, slast,
               engine, everStopped, elast, pa, astream,
               crypto, cwall, envelope, securityToken, clast, marked,
               cab, gcall, facade, flast>>

Min(a, b) == IF a < b THEN a ELSE b

(***************************************************************************)
(* Bounds of the model.                                                    *)
(***************************************************************************)
MaxCap    == 3    \* RingBuffer capacities 1..MaxCap
MaxCount  == 2    \* element counts passed to RingBuffer write/read/peek: 0..MaxCount
NumVals   == 2    \* element values 1..NumVals

(***************************************************************************)
(* RingBuffer<T>  (buffer.hpp:22-192)                                      *)
(*                                                                         *)
(* Every operation holds mutex_ from its first to its last statement, so   *)
(* it is one atomic step; storage is indexed 0..capacity-1.  Caller        *)
(* buffers (data, dst) are sequences, indexed from 1.                      *)
(***************************************************************************)

\* std::memcpy(&buffer_[dstOff], data + srcOff, n * sizeof(T))
MemcpyIn(buffer, dstOff, data, srcOff, n) ==
    [i \in DOMAIN buffer |->
        IF i >= dstOff /\ i < dstOff + n THEN data[srcOff + (i - dstOff) + 1]
                                         ELSE buffer[i]]

\* std::memcpy(data + dstOff, &buffer_[srcOff], n * sizeof(T))
MemcpyOut(data, dstOff, buffer, srcOff, n) ==
    [i \in DOMAIN data |->
        IF i >= dstOff + 1 /\ i <= dstOff + n THEN buffer[srcOff + (i - dstOff - 1)]
                                              ELSE data[i]]

\* RingBuffer(capacity): the vector is value-initialised
RingNew(capacity) ==
    [buffer    |-> [i \in 0..(capacity - 1) |-> 0],
     capacity  |-> capacity,
     write_pos |-> 0,
     read_pos  |-> 0,
     size      |-> 0]

AdvancePosNoWrap(pos, n, capacity) == pos + n

\* write_pos_ = (write_pos_ + to_write) % capacity_, and the same for read_pos_
AdvancePos(pos, n, capacity) == (pos + n) % capacity

\* std::min(count, available) in write, std::min(count, current_size) in read and peek
Clamp(count, limit) == Min(count, limit)

\* std::min(to_write, capacity_ - write_pos_): the part that fits before the end of the storage
FirstPart(to_copy, capacity, pos) == Min(to_copy, capacity - pos)

\* RingBuffer::write(data, count)
RingWrite(r, data, count) ==
    IF count = 0 THEN [ring |-> r, ret |-> 0]
    ELSE
    LET available == r.capacity - r.size
        to_write  == Clamp(count, available)
    IN  IF to_write = 0 THEN [ring |-> r, ret |-> 0]
        ELSE
        LET first_part == FirstPart(to_write, r.capacity, r.write_pos)
            b1 == MemcpyIn(r.buffer, r.write_pos, data, 0, first_part)
            b2 == IF first_part < to_write
                  THEN MemcpyIn(b1, 0, data, first_part, to_write - first_part)
                  ELSE b1
        IN  [ring |-> [r EXCEPT !.buffer    = b2,
                                !.write_pos = AdvancePos(r.write_pos, to_write, r.capacity),
                                !.size      = r.size + to_write],
             ret  |-> to_write]

RingCopyOutNoWrap(r, data, to_read) ==
    MemcpyOut(data, 0, r.buffer, r.read_pos, FirstPart(to_read, r.capacity, r.read_pos))

\* The copy-out shared by read and peek (buffer.hpp:88-95 and 119-128)
RingCopyOut(r, data, to_read) ==
    LET first_part == FirstPart(to_read, r.capacity, r.read_pos)
        d1 == MemcpyOut(data, 0, r.buffer, r.read_pos, first_part)
    IN  IF first_part < to_read
        THEN MemcpyOut(d1, first_part, r.buffer, 0, to_read - first_part)
        ELSE d1

RingReadKeepsSize(r, data, count) ==
    IF count = 0 \/ r.size = 0 THEN [ring |-> r, ret |-> 0, data |-> data]
    ELSE
    LET to_read == Clamp(count, r.size)
    IN  [ring |-> [r EXCEPT !.read_pos = AdvancePos(r.read_pos, to_read, r.capacity)],
         ret  |-> to_read,
         data |-> RingCopyOut(r, data, to_read)]

\* RingBuffer::read(data, count)
RingRead(r, data, count) ==
    IF count = 0 \/ r.size = 0 THEN [ring |-> r, ret |-> 0, data |-> data]
    ELSE
    LET to_read == Clamp(count, r.size)
    IN  [ring |-> [r EXCEPT !.read_pos = AdvancePos(r.read_pos, to_read, r.capacity),
                            !.size     = r.size - to_read],
         ret  |-> to_read,
         data |-> RingCopyOut(r, data, to_read)]

RingPeekConsumes(r, data, count) == RingRead(r, data, count)

\* RingBuffer::peek(data, count)
RingPeek(r, data, count) ==
    IF count = 0 \/ r.size = 0 THEN [ring |-> r, ret |-> 0, data |-> data]
    ELSE
    LET to_read == Clamp(count, r.size)
    IN  [ring |-> r, ret |-> to_read, data |-> RingCopyOut(r, data, to_read)]

\* RingBuffer::clear()
RingClear(r) == [r EXCEPT !.write_pos = 0, !.read_pos = 0, !.size = 0]

\* size(), empty(), available()
RingSize(r)  == r.size
RingEmpty(r) == r.size = 0

\* The stored elements, oldest first: the FIFO the ring represents
RingContents(r) ==
    [k \in 1..r.size |-> r.buffer[(r.read_pos + (k - 1)) % r.capacity]]

(***************************************************************************)
(* The RingBuffer on its own: one producer and one consumer call write,    *)
(* read, peek and clear in any interleaving.                               *)
(***************************************************************************)
Vals == 1..NumVals

SeqsOfLen(n) == [1..n -> Vals]

\* The caller's destination buffer before the call: n elements that are not data
Fresh(n) == [i \in 1..n |-> -1]

NoCall == [op |-> "none", count |-> 0, ret |-> 0, data |-> <<>>, pre |-> RingNew(1)]

NoFlow == 0

\* The count after a call that accepted or returned more elements
Flow(f, accepted, returned) == f + accepted - returned

RingInit ==
    /\ \E capacity \in 1..MaxCap : ring = RingNew(capacity)
    /\ rlast = NoCall
    /\ rflow = NoFlow

RWrite ==
    \E count \in 0..MaxCount : \E data \in SeqsOfLen(count) :
        LET w == RingWrite(ring, data, count)
        IN  /\ ring'  = w.ring
            /\ rlast' = [op |-> "write", count |-> count, ret |-> w.ret,
                         data |-> data, pre |-> ring]
            /\ rflow' = Flow(rflow, w.ret, 0)
            /\ UNCHANGED notRing

RRead ==
    \E count \in 0..MaxCount :
        LET r == RingRead(ring, Fresh(count), count)
        IN  /\ ring'  = r.ring
            /\ rlast' = [op |-> "read", count |-> count, ret |-> r.ret,
                         data |-> r.data, pre |-> ring]
            /\ rflow' = Flow(rflow, 0, r.ret)
            /\ UNCHANGED notRing

RPeek ==
    \E count \in 0..MaxCount :
        LET r == RingPeek(ring, Fresh(count), count)
        IN  /\ ring'  = r.ring
            /\ rlast' = [op |-> "peek", count |-> count, ret |-> r.ret,
                         data |-> r.data, pre |-> ring]
            /\ UNCHANGED <<rflow, notRing>>

RClear ==
    /\ ring'  = RingClear(ring)
    /\ rlast' = [op |-> "clear", count |-> 0, ret |-> 0, data |-> <<>>, pre |-> ring]
    /\ rflow' = NoFlow
    /\ UNCHANGED notRing

RingNext == RWrite \/ RRead \/ RPeek \/ RClear


(***************************************************************************)
(* AudioBuffer  (buffer.hpp:198-343)                                       *)
(*                                                                         *)
(* write_samples, read_samples, clear and set_buffer_size_ms hold the      *)
(* buffer's mutex_ for their whole body: each is one atomic step.          *)
(***************************************************************************)
MaxMs       == 2    \* buffer_ms in 1..MaxMs
MaxFrames   == 2    \* frame counts passed to write_samples/read_samples: 0..MaxFrames
MaxWritten  == 3    \* frames handed to write_samples in one run
TimeBase    == 10   \* timestamps and clock readings in TimeBase..TimeBase+TimeSpan
TimeSpan    == 1

\* The stream configurations: scaled-down sample rates (1 and 2 samples per ms), mono and stereo
SampleRates   == {1000, 2000}
ChannelCounts == {1, 2}

Times == TimeBase..(TimeBase + TimeSpan)

\* AudioBuffer(sample_rate, channels, buffer_ms)
ABNew(sample_rate, channels, buffer_ms) ==
    LET spm == sample_rate \div 1000
    IN  [sample_rate    |-> sample_rate,
         channels       |-> channels,
         buffer_ms      |-> buffer_ms,
         samples_per_ms |-> spm,
         buffer_size    |-> spm * buffer_ms * channels,
         buffer         |-> RingNew(spm * buffer_ms * channels),
         timestamp      |-> 0]

\* std::memset(samples, 0, n * sizeof(float))
Memset(samples, n) == [i \in DOMAIN samples |-> IF i <= n THEN 0 ELSE samples[i]]

\* std::vector<float> temp(n)
TempVector(n) == [i \in 1..n |-> 0]

HeadOnWriteNever(a, timestamp) == a.timestamp

\* if (buffer_->empty()) timestamp_ = timestamp;
HeadOnWrite(a, timestamp) == IF RingEmpty(a.buffer) THEN timestamp ELSE a.timestamp

WriteSamplesInSamples(a, samples, count, timestamp) ==
    LET w == RingWrite(a.buffer, samples, count * a.channels)
    IN  [ab  |-> [a EXCEPT !.timestamp = HeadOnWrite(a, timestamp), !.buffer = w.ring],
         ret |-> w.ret]

\* AudioBuffer::write_samples(samples, count, timestamp)
WriteSamples(a, samples, count, timestamp) ==
    LET w == RingWrite(a.buffer, samples, count * a.channels)
    IN  [ab  |-> [a EXCEPT !.timestamp = HeadOnWrite(a, timestamp), !.buffer = w.ring],
         ret |-> w.ret \div a.channels]

SilenceConsumes(a, samples, count) ==
    LET r == RingRead(a.buffer, samples, count * a.channels)
    IN  [ab |-> [a EXCEPT !.buffer = r.ring], ret |-> count,
         samples |-> Memset(samples, count * a.channels)]

\* time_diff < 0: memset and return count (buffer.hpp:256-260)
Silence(a, samples, count) ==
    [ab |-> a, ret |-> count, samples |-> Memset(samples, count * a.channels)]

SamplesToSkipNone(a, time_diff) == 0

\* std::min(time_diff * samples_per_ms_, buffer_->size() / channels_)
SamplesToSkip(a, time_diff) ==
    Min(time_diff * a.samples_per_ms, RingSize(a.buffer) \div a.channels)

\* AudioBuffer::read_samples(samples, count, current_time)
ReadSamples(a, samples, count, current_time) ==
    IF RingEmpty(a.buffer) THEN [ab |-> a, ret |-> 0, samples |-> samples]
    ELSE
    LET time_diff == current_time - a.timestamp
    IN  IF time_diff < 0 THEN Silence(a, samples, count)
        ELSE
        LET samples_to_skip == SamplesToSkip(a, time_diff)
            skipped == IF samples_to_skip > 0
                       THEN RingRead(a.buffer, TempVector(samples_to_skip * a.channels),
                                     samples_to_skip * a.channels).ring
                       ELSE a.buffer
            ts1 == IF samples_to_skip > 0
                   THEN a.timestamp + (samples_to_skip \div a.samples_per_ms)
                   ELSE a.timestamp
            r   == RingRead(skipped, samples, count * a.channels)
            ts2 == ts1 + ((r.ret \div a.channels) \div a.samples_per_ms)
        IN  [ab      |-> [a EXCEPT !.buffer = r.ring, !.timestamp = ts2],
             ret     |-> r.ret \div a.channels,
             samples |-> r.data]

\* AudioBuffer::clear()
ABClear(a) == [a EXCEPT !.buffer = RingClear(a.buffer)]

SetBufferSizeMsInFrames(a, buffer_ms) ==
    IF buffer_ms = 0 THEN [ab |-> a, err |-> TRUE]
    ELSE
    LET size == a.samples_per_ms * buffer_ms
        new_buffer == RingNew(size)
        moved == IF ~RingEmpty(a.buffer)
                 THEN LET r == RingRead(a.buffer, TempVector(RingSize(a.buffer)),
                                        RingSize(a.buffer))
                      IN  RingWrite(new_buffer, r.data, r.ret).ring
                 ELSE new_buffer
    IN  [ab  |-> [a EXCEPT !.buffer_ms = buffer_ms, !.buffer_size = size, !.buffer = moved],
         err |-> FALSE]

\* AudioBuffer::set_buffer_size_ms(buffer_ms); err: std::invalid_argument was thrown
SetBufferSizeMs(a, buffer_ms) ==
    IF buffer_ms = 0 THEN [ab |-> a, err |-> TRUE]
    ELSE
    LET size == a.samples_per_ms * buffer_ms * a.channels
        new_buffer == RingNew(size)
        moved == IF ~RingEmpty(a.buffer)
                 THEN LET r == RingRead(a.buffer, TempVector(RingSize(a.buffer)),
                                        RingSize(a.buffer))
                      IN  RingWrite(new_buffer, r.data, r.ret).ring
                 ELSE new_buffer
    IN  [ab  |-> [a EXCEPT !.buffer_ms = buffer_ms, !.buffer_size = size, !.buffer = moved],
         err |-> FALSE]

\* get_latency_ms()
GetLatencyMs(a) == (RingSize(a.buffer) \div a.channels) \div a.samples_per_ms

\* The frames stored, in frames
StoredFrames(a) == RingSize(a.buffer) \div a.channels

NoAudioCall ==
    [op |-> "none", count |-> 0, t |-> 0, ret |-> 0, samples |-> <<>>, err |-> FALSE,
     pre |-> ABNew(1000, 1, 1)]

\* The call before the last one was not a write_samples into an empty buffer
NoPending == [active |-> FALSE, count |-> 0, t |-> 0]

\* What is kept of a call once another call follows it
Previous(call) ==
    IF call.op = "write" /\ RingEmpty(call.pre.buffer)
    THEN [active |-> TRUE, count |-> call.count, t |-> call.t]
    ELSE NoPending

\* The samples the caller passes to write_samples: numbered serial+1, serial+2, ..
Source(n) == [i \in 1..n |-> serial + i]

AudioInit ==
    /\ \E sample_rate \in SampleRates, channels \in ChannelCounts, buffer_ms \in 1..MaxMs :
           ab = ABNew(sample_rate, channels, buffer_ms)
    /\ alast  = NoAudioCall
    /\ aprev  = NoPending
    /\ aghost = [t0 |-> 0, written |-> 0, consumed |-> 0, contiguous |-> TRUE]
    /\ serial = 0

AWrite ==
    \E count \in 0..MaxFrames : \E timestamp \in Times :
        /\ serial + count * ab.channels <= MaxWritten * ab.channels
        /\ LET src == Source(count * ab.channels)
               w   == WriteSamples(ab, src, count, timestamp)
           IN  /\ ab'     = w.ab
               /\ alast'  = [op |-> "write", count |-> count, t |-> timestamp, ret |-> w.ret,
                             samples |-> src, err |-> FALSE, pre |-> ab]
               /\ aghost' = IF RingEmpty(ab.buffer)
                            THEN [t0 |-> timestamp, written |-> w.ret, consumed |-> 0,
                                  contiguous |-> TRUE]
                            ELSE [aghost EXCEPT
                                    !.written = @ + w.ret,
                                    !.contiguous = @ /\ (timestamp * ab.samples_per_ms =
                                        aghost.t0 * ab.samples_per_ms + aghost.written)]
               /\ serial' = serial + count * ab.channels
        /\ aprev' = Previous(alast)
        /\ UNCHANGED notAudio

ARead ==
    \E count \in 0..MaxFrames : \E current_time \in Times :
        LET r == ReadSamples(ab, Fresh(count * ab.channels), count, current_time)
        IN  /\ ab'     = r.ab
            /\ alast'  = [op |-> "read", count |-> count, t |-> current_time, ret |-> r.ret,
                          samples |-> r.samples, err |-> FALSE, pre |-> ab]
            /\ aghost' = [aghost EXCEPT
                            !.consumed = @ + (StoredFrames(ab) - StoredFrames(r.ab))]
            /\ aprev'  = Previous(alast)
            /\ UNCHANGED <<serial, notAudio>>

AClear ==
    /\ ab'    = ABClear(ab)
    /\ alast' = [op |-> "clear", count |-> 0, t |-> 0, ret |-> 0, samples |-> <<>>,
                 err |-> FALSE, pre |-> ab]
    /\ aprev' = Previous(alast)
    /\ UNCHANGED <<aghost, serial, notAudio>>

AResize ==
    \E buffer_ms \in 0..MaxMs :
        LET s == SetBufferSizeMs(ab, buffer_ms)
        IN  /\ ab'     = s.ab
            /\ alast'  = [op |-> "resize", count |-> buffer_ms, t |-> 0, ret |-> 0,
                          samples |-> <<>>, err |-> s.err, pre |-> ab]
            /\ aghost' = [aghost EXCEPT
                            !.contiguous = @ /\ StoredFrames(ab) = StoredFrames(s.ab)]
            /\ aprev'  = Previous(alast)
            /\ UNCHANGED <<serial, notAudio>>

AudioNext == AWrite \/ ARead \/ AClear \/ AResize

(***************************************************************************)
(* MeshNetwork  (mesh.cpp:218-348, mesh.h:272-371)                         *)
(*                                                                         *)
(* Threads: the dispatch worker (runNetworkLoop), the threads that call    *)
(* start and stop, and the threads that call sendPacket.  A critical       *)
(* section that is entered and left inside one function without blocking   *)
(* is one step, enabled when its mutex is free.  The worker's steps are    *)
(* split where it blocks or where it holds a mutex across a call.          *)
(*                                                                         *)
(* `running` is a plain bool that the worker reads without networkMutex    *)
(* (mesh.cpp:299, 305, 307) while start and stop write it under            *)
(* networkMutex: a data race.  The reads are separated by opaque mutex     *)
(* calls, so a build re-reads the flag each time, and the only thing a     *)
(* racing read can return is the value before or after the write: both     *)
(* are interleavings of the read step with the write step below.           *)
(***************************************************************************)
MaxPackets == 2    \* packets passed to sendPacket in one run
MaxLogged  == 2    \* calls of start counted by startlog, of each kind

NodeIds   == {"n0", "n1"}
LocalId   == "n0"
Roles     == {"Repeater", "Sink"}
PacketSources == {"n1"}         \* the node ids that Ping and Status packets carry
Callers   == {"c1", "c2"}       \* threads that call start and stop
SeqCaller == {"c1"}             \* the one thread that calls them in the sequential runs
Senders   == {"s1", "s2"}       \* threads that call sendPacket
StatusBuffers == {50}
StatusLatency == {7}
HandlerKinds  == {"none", "ok", "throws"}
\* handlers that call the MeshNetwork they are registered with: sendPacket, registerNode
CallbackKinds == {"sends", "registers"}

\* Node::Node(id, role): no lastPing, latency 0, bufferState 100
NewNode(id, role) ==
    [present |-> TRUE, role |-> role, lastPing |-> <<>>, latency |-> 0, bufferState |-> 100]

\* An id that nodes.find() does not find
Absent == [present |-> FALSE, role |-> "Sink", lastPing |-> <<>>, latency |-> 0,
           bufferState |-> 0]

\* Node::updatePing()
UpdatePing(node) == [node EXCEPT !.lastPing = <<clock>>]

\* The body of updateNodeStatus under its lock (mesh.cpp:272-277)
UpdateStatus(ns, nodeId, bufferState, latency) ==
    IF ns[nodeId].present
    THEN [ns EXCEPT ![nodeId] = UpdatePing([@ EXCEPT !.bufferState = bufferState,
                                                     !.latency = latency])]
    ELSE ns

\* MeshPacket::createPing .. createEmergencySync; id and by: the position in the
\* order of the appends and the sending thread
Packets(id, by) ==
    {[id |-> id, by |-> by, type |-> "Ping", source |-> n, buffer |-> 0, latency |-> 0] :
        n \in PacketSources}
    \cup {[id |-> id, by |-> by, type |-> "Status", source |-> n, buffer |-> b, latency |-> l] :
        n \in PacketSources, b \in StatusBuffers, l \in StatusLatency}
    \cup {[id |-> id, by |-> by, type |-> t, source |-> "", buffer |-> 0, latency |-> 0] :
        t \in {"Command", "TimeBeacon", "EmergencySync"}}

EnqueueFront(queue, packet) == <<packet>> \o queue

\* packetQueue.push_back(packet)
Enqueue(queue, packet) == Append(queue, packet)

Alive == terminated = "no"

\* getActiveNodes has not been called
NoListing == [called |-> FALSE, ret |-> {}]

\* start has not been called
NoStarts == [spawned |-> 0, returned |-> 0]

\* MeshNetwork::MeshNetwork(localNode)
MeshInit ==
    /\ running = FALSE
    /\ networkMutex = "free"
    /\ queueMutex = "free"
    /\ packetQueue = <<>>
    /\ packetHandler = "none"
    /\ nodes = [n \in NodeIds |-> IF n = LocalId THEN NewNode(n, "Master") ELSE Absent]
    /\ networkThread = "null"
    /\ wpc = "none"
    /\ packetsToProcess = <<>>
    /\ widx = 1
    /\ cpc = [c \in Callers |-> "idle"]
    /\ delivered = <<>>
    /\ nsent = 0
    /\ terminated = "no"
    /\ clock = 0
    /\ heard = [n \in NodeIds |-> <<>>]
    /\ listing = NoListing
    /\ startlog = NoStarts

StartSpawnsAlways(isRunning) == TRUE

\* start(): if (running) return; otherwise the worker is spawned
StartSpawns(isRunning) == ~isRunning

\* One more call counted, up to maxLogged of each kind
LogStart(log, kind, maxLogged) ==
    IF log[kind] < maxLogged THEN [log EXCEPT ![kind] = @ + 1] ELSE log

\* MeshNetwork::start(); maxLogged: how many calls of each kind startlog counts
Start(c, maxLogged) ==
    /\ Alive /\ cpc[c] = "idle"
    /\ networkMutex = "free"
    /\ IF ~StartSpawns(running)
       THEN /\ startlog' = LogStart(startlog, "returned", maxLogged)
            /\ UNCHANGED <<running, networkThread, wpc, packetsToProcess, widx, terminated>>
       ELSE /\ running' = TRUE
            /\ startlog' = LogStart(startlog, "spawned", maxLogged)
            /\ IF networkThread = "joinable"
               \* the unique_ptr destroys a std::thread that was not joined
               THEN /\ terminated' = "thread_replaced"
                    /\ UNCHANGED <<networkThread, wpc, packetsToProcess, widx>>
               ELSE /\ networkThread' = "joinable"
                    /\ wpc' = "top"
                    /\ packetsToProcess' = <<>>
                    /\ widx' = 1
                    /\ UNCHANGED terminated
    /\ UNCHANGED <<networkMutex, queueMutex, packetQueue, packetHandler, nodes, cpc,
                   delivered, nsent, clock, heard, listing, notMesh>>

\* A thread calls stop()
StopCall(c) ==
    /\ Alive /\ cpc[c] = "idle"
    /\ cpc' = [cpc EXCEPT ![c] = "stop_lock"]
    /\ UNCHANGED <<running, networkMutex, queueMutex, packetQueue, packetHandler, nodes,
                   networkThread, wpc, packetsToProcess, widx, delivered, nsent,
                   terminated, clock, heard, listing, startlog, notMesh>>

\* stop(): the block under networkMutex (mesh.cpp:240-247)
StopLock(c) ==
    /\ Alive /\ cpc[c] = "stop_lock"
    /\ networkMutex = "free"
    /\ IF ~running
       THEN /\ cpc' = [cpc EXCEPT ![c] = "idle"]
            /\ UNCHANGED running
       ELSE /\ running' = FALSE
            /\ cpc' = [cpc EXCEPT ![c] = "stop_join"]
    /\ UNCHANGED <<networkMutex, queueMutex, packetQueue, packetHandler, nodes,
                   networkThread, wpc, packetsToProcess, widx, delivered, nsent,
                   terminated, clock, heard, listing, startlog, notMesh>>

\* stop(): notify_all, then join when the thread is joinable (mesh.cpp:250-254)
StopJoin(c) ==
    /\ Alive /\ cpc[c] = "stop_join"
    /\ networkThread = "joinable" => wpc = "returned"
    /\ IF networkThread = "joinable"
       THEN networkThread' = "joined" /\ wpc' = "none"
       ELSE UNCHANGED <<networkThread, wpc>>
    /\ cpc' = [cpc EXCEPT ![c] = "idle"]
    /\ UNCHANGED <<running, networkMutex, queueMutex, packetQueue, packetHandler, nodes,
                   packetsToProcess, widx, delivered, nsent, terminated, clock, heard, listing, startlog, notMesh>>

\* MeshNetwork::sendPacket(packet)
SendPacket(s) ==
    /\ Alive
    /\ queueMutex = "free"
    /\ nsent < MaxPackets
    /\ \E packet \in Packets(nsent + 1, s) :
           packetQueue' = Enqueue(packetQueue, packet)
    /\ nsent' = nsent + 1
    /\ UNCHANGED <<running, networkMutex, queueMutex, packetHandler, nodes, networkThread,
                   wpc, packetsToProcess, widx, cpc, delivered, terminated, clock, heard, listing, startlog, notMesh>>

\* MeshNetwork::registerNode(nodeId, role)
RegisterOverwrites(ns, nodeId, role) == [ns EXCEPT ![nodeId] = NewNode(nodeId, role)]

\* registerNode: if (nodes.find(nodeId) == nodes.end()) nodes[nodeId] = Node(nodeId, role)
Register(ns, nodeId, role) ==
    IF ~ns[nodeId].present
    THEN [ns EXCEPT ![nodeId] = NewNode(nodeId, role)]
    ELSE ns

RegisterNode ==
    /\ Alive
    /\ networkMutex = "free"
    /\ \E nodeId \in NodeIds, role \in Roles : nodes' = Register(nodes, nodeId, role)
    /\ UNCHANGED <<running, networkMutex, queueMutex, packetQueue, packetHandler,
                   networkThread, wpc, packetsToProcess, widx, cpc, delivered, nsent,
                   terminated, clock, heard, listing, startlog, notMesh>>

\* MeshNetwork::setPacketHandler(handler)
SetPacketHandler(kinds) ==
    /\ Alive
    /\ networkMutex = "free"
    /\ \E h \in kinds : packetHandler' = h
    /\ UNCHANGED <<running, networkMutex, queueMutex, packetQueue, nodes, networkThread,
                   wpc, packetsToProcess, widx, cpc, delivered, nsent, terminated, clock, heard, listing, startlog, notMesh>>

(***************************************************************************)
(* The dispatch worker: runNetworkLoop (mesh.cpp:298-320)                  *)
(***************************************************************************)
\* while (running)
WTop ==
    /\ Alive /\ wpc = "top"
    /\ wpc' = IF running THEN "lock_queue" ELSE "returned"
    /\ UNCHANGED <<running, networkMutex, queueMutex, packetQueue, packetHandler, nodes,
                   networkThread, packetsToProcess, widx, cpc, delivered, nsent,
                   terminated, clock, heard, listing, startlog, notMesh>>

\* The predicate of wait_for
WaitPredicate == packetQueue # <<>> \/ ~running

\* unique_lock(queueMutex), then wait_for: with the predicate false it releases
\* the mutex and blocks
WLockQueue ==
    /\ Alive /\ wpc = "lock_queue"
    /\ queueMutex = "free"
    /\ IF WaitPredicate
       THEN queueMutex' = "worker" /\ wpc' = "woken"
       ELSE queueMutex' = "free" /\ wpc' = "waiting"
    /\ UNCHANGED <<running, networkMutex, packetQueue, packetHandler, nodes,
                   networkThread, packetsToProcess, widx, cpc, delivered, nsent,
                   terminated, clock, heard, listing, startlog, notMesh>>

\* wait_for returns: on a notification with the predicate true, or after the
\* 100 ms timeout whatever the predicate; it holds the mutex again
WWake ==
    /\ Alive /\ wpc = "waiting"
    /\ queueMutex = "free"
    /\ queueMutex' = "worker"
    /\ wpc' = "woken"
    /\ UNCHANGED <<running, networkMutex, packetQueue, packetHandler, nodes,
                   networkThread, packetsToProcess, widx, cpc, delivered, nsent,
                   terminated, clock, heard, listing, startlog, notMesh>>

DrainReversed(queue) == [i \in 1..Len(queue) |-> queue[Len(queue) + 1 - i]]

\* packetsToProcess.swap(packetQueue) into the empty batch
Drain(queue) == queue

UnlockNever(mutex, thread) == mutex

\* The end of the block of a lock: its destructor releases the mutex it holds
Unlock(mutex, thread) == IF mutex = thread THEN "free" ELSE mutex

\* if (!running) break; if (!packetQueue.empty()) swap; the lock is released
WDrain ==
    /\ Alive /\ wpc = "woken"
    /\ queueMutex' = Unlock(queueMutex, "worker")
    /\ IF ~running
       THEN /\ wpc' = "returned"
            /\ UNCHANGED <<packetQueue, packetsToProcess, widx>>
       ELSE /\ wpc' = "dispatch"
            /\ packetsToProcess' = Drain(packetQueue)
            /\ packetQueue' = <<>>
            /\ widx' = 1
    /\ UNCHANGED <<running, networkMutex, packetHandler, nodes, networkThread, cpc,
                   delivered, nsent, terminated, clock, heard, listing, startlog, notMesh>>

\* The for loop is over: the batch is destroyed and the while loop tests again
WLoopEnd ==
    /\ Alive /\ wpc = "dispatch"
    /\ widx > Len(packetsToProcess)
    /\ packetsToProcess' = <<>>
    /\ widx' = 1
    /\ wpc' = "top"
    /\ UNCHANGED <<running, networkMutex, queueMutex, packetQueue, packetHandler, nodes,
                   networkThread, cpc, delivered, nsent, terminated, clock, heard, listing, startlog, notMesh>>

(***************************************************************************)
(* processPacket (mesh.cpp:322-348)                                        *)
(***************************************************************************)
\* std::lock_guard<std::mutex> lock(networkMutex)
WProcLock ==
    /\ Alive /\ wpc = "dispatch"
    /\ widx <= Len(packetsToProcess)
    /\ networkMutex = "free"
    /\ networkMutex' = "worker"
    /\ wpc' = "update"
    /\ UNCHANGED <<running, queueMutex, packetQueue, packetHandler, nodes, networkThread,
                   packetsToProcess, widx, cpc, delivered, nsent, terminated, clock, heard, listing, startlog, notMesh>>

\* What locking a std::mutex the thread already owns can do: block for ever, or
\* (an implementation that detects it) throw std::system_error, which nothing
\* catches in the worker
RelockOutcomes == {"deadlock", "system_error"}

\* The switch on the packet type.  Status calls updateNodeStatus, which locks
\* networkMutex again on the thread that holds it.
WProcUpdate ==
    /\ Alive /\ wpc = "update"
    /\ LET packet == packetsToProcess[widx]
       IN  CASE packet.type = "Ping" ->
                  /\ nodes' = IF nodes[packet.source].present
                              THEN [nodes EXCEPT ![packet.source] = UpdatePing(@)]
                              ELSE nodes
                  /\ heard' = [heard EXCEPT ![packet.source] = <<clock>>]
                  /\ wpc' = "handler"
                  /\ UNCHANGED terminated
             [] packet.type = "Status" ->
                  /\ \E outcome \in RelockOutcomes :
                        IF outcome = "deadlock"
                        THEN wpc' = "deadlocked" /\ UNCHANGED terminated
                        ELSE terminated' = "relock_error" /\ UNCHANGED wpc
                  /\ UNCHANGED <<nodes, heard>>
             [] OTHER ->
                  /\ wpc' = "handler"
                  /\ UNCHANGED <<nodes, heard, terminated>>
    /\ UNCHANGED <<running, networkMutex, queueMutex, packetQueue, packetHandler,
                   networkThread, packetsToProcess, widx, cpc, delivered, nsent, clock, listing, startlog, notMesh>>

\* What is kept of a handler invocation: which packet, sent by which thread
Invocation(packet) == [id |-> packet.id, by |-> packet.by]

\* if (packetHandler) packetHandler(packet); then the lock_guard is released.
\* An exception of the handler leaves processPacket and runNetworkLoop, which
\* have no try block, and the thread function: std::terminate.
WProcHandler ==
    /\ Alive /\ wpc = "handler"
    /\ delivered' = IF packetHandler = "none" THEN delivered
                    ELSE Append(delivered, Invocation(packetsToProcess[widx]))
    /\ CASE packetHandler = "throws" ->
              /\ terminated' = "handler_exception"
              /\ UNCHANGED <<wpc, widx, networkMutex>>
         [] packetHandler = "registers" ->
              \* the handler calls registerNode, which locks networkMutex on
              \* the thread that holds it
              /\ \E outcome \in RelockOutcomes :
                    IF outcome = "deadlock"
                    THEN wpc' = "deadlocked" /\ UNCHANGED terminated
                    ELSE terminated' = "relock_error" /\ UNCHANGED wpc
              /\ UNCHANGED <<widx, networkMutex>>
         [] packetHandler = "sends" /\ nsent < MaxPackets ->
              \* the handler calls sendPacket
              /\ wpc' = "handler_send"
              /\ UNCHANGED <<widx, networkMutex, terminated>>
         [] OTHER ->
              /\ networkMutex' = "free"
              /\ widx' = widx + 1
              /\ wpc' = "dispatch"
              /\ UNCHANGED terminated
    /\ UNCHANGED <<running, queueMutex, packetQueue, packetHandler, nodes, networkThread,
                   packetsToProcess, cpc, nsent, clock, heard, listing, startlog, notMesh>>

\* The handler's sendPacket: std::lock_guard<std::mutex> lock(queueMutex)
WHandlerLock ==
    /\ Alive /\ wpc = "handler_send"
    /\ queueMutex = "free"
    /\ queueMutex' = "worker"
    /\ wpc' = "handler_sending"
    /\ UNCHANGED <<running, networkMutex, packetQueue, packetHandler, nodes, networkThread,
                   packetsToProcess, widx, cpc, delivered, nsent, terminated, clock, heard,
                   listing, startlog, notMesh>>

\* The handler's sendPacket appends and returns, the handler returns, and
\* processPacket releases networkMutex
WHandlerSent ==
    /\ Alive /\ wpc = "handler_sending"
    /\ packetQueue' = Enqueue(packetQueue,
                              [id |-> nsent + 1, by |-> "worker", type |-> "Command",
                               source |-> "", buffer |-> 0, latency |-> 0])
    /\ nsent' = nsent + 1
    /\ queueMutex' = Unlock(queueMutex, "worker")
    /\ networkMutex' = "free"
    /\ widx' = widx + 1
    /\ wpc' = "dispatch"
    /\ UNCHANGED <<running, packetHandler, nodes, networkThread, packetsToProcess, cpc,
                   delivered, terminated, clock, heard, listing, startlog, notMesh>>

Worker ==
    \/ WTop \/ WLockQueue \/ WWake \/ WDrain \/ WLoopEnd
    \/ WProcLock \/ WProcUpdate \/ WProcHandler

StopSteps(c) == StopLock(c) \/ StopJoin(c)

\* start and stop are called by one thread, one call after the other
MeshNext ==
    \/ \E c \in SeqCaller : Start(c, 0) \/ StopCall(c) \/ StopSteps(c)
    \/ \E s \in Senders : SendPacket(s)
    \/ RegisterNode
    \/ SetPacketHandler(HandlerKinds)
    \/ Worker

(***************************************************************************)
(* Node liveness: Node::isActive and getActiveNodes (mesh.cpp:34-44,       *)
(* 280-291), with the steady clock advancing.                              *)
(***************************************************************************)
MaxClock   == 60          \* the steady clock runs from 0 to MaxClock seconds
ActiveWindow == 30        \* return diff < 30
TickSteps  == {ActiveWindow - 1, ActiveWindow}   \* how far one step advances the clock

\* Node::isActive() at steady-clock time now; diff is in whole seconds
IsActive(node, now) ==
    /\ node.lastPing # <<>>
    /\ now - node.lastPing[1] < ActiveWindow

\* MeshNetwork::getActiveNodes()
GetActiveNodes ==
    /\ Alive
    /\ networkMutex = "free"
    /\ listing' = [called |-> TRUE,
                   ret |-> {n \in NodeIds : nodes[n].present /\ IsActive(nodes[n], clock)}]
    /\ UNCHANGED <<running, networkMutex, queueMutex, packetQueue, packetHandler, nodes,
                   networkThread, wpc, packetsToProcess, widx, cpc, delivered, nsent,
                   terminated, clock, heard, startlog, notMesh>>

\* Time passes
Tick ==
    /\ Alive
    /\ \E d \in TickSteps : clock + d <= MaxClock /\ clock' = clock + d
    /\ UNCHANGED <<running, networkMutex, queueMutex, packetQueue, packetHandler, nodes,
                   networkThread, wpc, packetsToProcess, widx, cpc, delivered, nsent,
                   terminated, heard, listing, startlog, notMesh>>

\* A started network with senders, registrations, the passing of time and
\* queries of the active nodes
RegistryNext ==
    \/ \E c \in SeqCaller : Start(c, 0)
    \/ \E s \in Senders : SendPacket(s)
    \/ RegisterNode
    \/ Worker
    \/ Tick
    \/ GetActiveNodes

\* start and stop called by several threads at any time
ConcurrentNext ==
    \/ \E c \in Callers : Start(c, 0) \/ StopCall(c) \/ StopSteps(c)
    \/ SendPacket("s1")
    \/ SetPacketHandler(HandlerKinds)
    \/ Worker

\* A network whose handler calls sendPacket or registerNode on it
HandlerNext ==
    \/ \E c \in SeqCaller : Start(c, 0) \/ StopCall(c) \/ StopSteps(c)
    \/ SendPacket("s1")
    \/ SetPacketHandler(CallbackKinds)
    \/ Worker
    \/ WHandlerLock
    \/ WHandlerSent

\* start and stop called by one thread, one call after the other, and counted,
\* while another thread sends packets
StartNext ==
    \/ \E c \in SeqCaller : Start(c, MaxLogged) \/ StopCall(c) \/ StopSteps(c)
    \/ SendPacket("s1")
    \/ SetPacketHandler(HandlerKinds)
    \/ Worker

MeshIdle == MeshInit

(***************************************************************************)
(* SyncManager  (sync.cpp:11-126, sync.h:83-100)                           *)
(*                                                                         *)
(* Integer widths.  TLC computes with 32-bit integers, so uint64_t and     *)
(* int64_t are modelled TimeBits wide and uint32_t LatencyBits wide: the   *)
(* same modular arithmetic and the same casts, on a smaller power of two.  *)
(* The constants 10, 20 and 40 of the buffer sizing are kept as they are.  *)
(*                                                                         *)
(* Wall-clock readings and master times are millisecond timestamps: they   *)
(* lie in the lower half of the unsigned range, where the cast to int64_t  *)
(* keeps the value.                                                        *)
(*                                                                         *)
(* std::optional<float>: the float is kept as the exact quotient num/den;  *)
(* its rounding to 24 bits of mantissa is not modelled.                    *)
(*                                                                         *)
(* Every function body is one critical section under syncMutex and is one  *)
(* step, except emergencySync, which releases syncMutex between            *)
(* handleTimeBeacon and the clearing of the latencies (sync.cpp:119-123).  *)
(***************************************************************************)
TimeBits    == 6     \* width of the model's uint64_t / int64_t
LatencyBits == 7     \* width of the model's uint32_t
MaxWall     == 2     \* the wall clock runs from 0 to MaxWall

Uint64Mod == 2^TimeBits
Int64Max  == 2^(TimeBits - 1) - 1
Int64Min  == -(2^(TimeBits - 1))
Uint32Mod == 2^LatencyBits

BufferMargin    == 10    \* nodeLatency + 10
MaxBufferMs     == 40    \* std::min(bufferSize, 40u)
DefaultBufferMs == 20    \* return 20

MasterTimes == {0, Int64Max - MaxWall}
SyncNodeIds == {"a", "b"}
Latencies   == {10, Uint32Mod \div 2, Uint32Mod - 1}
AdjustInputs ==
    {0, 29, 30, 31, Uint32Mod - BufferMargin - 1, Uint32Mod - BufferMargin, Uint32Mod - 1}

\* static_cast<int64_t>(x) of a uint64_t
ToInt64(x) == IF x <= Int64Max THEN x ELSE x - Uint64Mod

\* static_cast<int64_t>(masterTime) - static_cast<int64_t>(currentTime): the
\* difference, or anything when the signed subtraction overflows
CalculatedOffsets(masterTime, currentTime) ==
    LET d == ToInt64(masterTime) - ToInt64(currentTime)
    IN  IF Int64Min <= d /\ d <= Int64Max THEN {d} ELSE Int64Min..Int64Max

NowValueUnsigned(currentTime, offset) ==
    (currentTime + (IF offset >= 0 THEN offset ELSE -offset)) % Uint64Mod

\* now(): currentTime + offset, or currentTime - (-offset), in uint64_t
NowValue(currentTime, offset) ==
    IF offset >= 0
    THEN (currentTime + offset) % Uint64Mod
    ELSE (currentTime - (-offset)) % Uint64Mod

BeaconFieldsNoInstant(offset) ==
    [timeOffset |-> offset, lastBeacon |-> <<>>, isSynced |-> TRUE]

\* handleTimeBeacon, the block under syncMutex
BeaconFields(offset) ==
    [timeOffset |-> offset, lastBeacon |-> <<"instant">>, isSynced |-> TRUE]

\* isSynchronized()
IsSynchronizedValue(beacon, synced) == beacon # <<>> /\ synced

\* (*nodeLatencies)[nodeId] = latency
UpsertLatency(m, nodeId, latency) ==
    [id \in DOMAIN m \cup {nodeId} |-> IF id = nodeId THEN latency ELSE m[id]]

ClearedKept(m) == m

\* nodeLatencies->clear()
Cleared(m) == <<>>

\* uint32_t sum = 0; for (...) sum += pair.second
RECURSIVE SumLatencies(_, _)
SumLatencies(m, ids) ==
    IF ids = {} THEN 0
    ELSE LET id == CHOOSE x \in ids : TRUE
         IN  (m[id] + SumLatencies(m, ids \ {id})) % Uint32Mod

NoAverage == [some |-> FALSE, num |-> 0, den |-> 1]

\* getAverageLatency(): std::nullopt, or static_cast<float>(sum) / size
AverageLatency(m) ==
    IF DOMAIN m = {} THEN NoAverage
    ELSE [some |-> TRUE, num |-> SumLatencies(m, DOMAIN m), den |-> Cardinality(DOMAIN m)]

\* static_cast<uint32_t>(*avgLatency)
Truncate(avg) == avg.num \div avg.den

\* calculateBufferAdjustment(nodeLatency)
CalculateBufferAdjustment(nodeLatency) ==
    LET bufferSize == (nodeLatency + BufferMargin) % Uint32Mod
    IN  Min(bufferSize, MaxBufferMs)

\* getOptimalBufferSize()
OptimalBufferSize(m) ==
    LET avgLatency == AverageLatency(m)
    IN  IF avgLatency.some THEN CalculateBufferAdjustment(Truncate(avgLatency))
        ELSE DefaultBufferMs

NoBeacon   == [set |-> FALSE, master |-> 0, at |-> 0, again |-> FALSE]
NoSyncCall == [op |-> "none", arg |-> 0, ret |-> 0, at |-> 0, clean |-> TRUE]
SyncIdlePc == [phase |-> "idle", master |-> 0, at |-> 0, interleaved |-> FALSE]

\* The record of a step that is the last one of a call
Returned(op, arg, ret) == [op |-> op, arg |-> arg, ret |-> ret, at |-> wall, clean |-> TRUE]

\* A state-changing call of another thread runs while emergencySync is between
\* its two critical sections
Interleave(pc) == IF pc.phase = "clear" THEN [pc EXCEPT !.interleaved = TRUE] ELSE pc

\* SyncManager::SyncManager()
SyncInit ==
    /\ timeOffset = 0
    /\ lastBeacon = <<>>
    /\ nodeLatencies = <<>>
    /\ isSynced = FALSE
    /\ wall = 0
    /\ spc = SyncIdlePc
    /\ sbeacon = NoBeacon
    /\ slast = NoSyncCall

\* The system clock read (sync.cpp:36-38) and the block under syncMutex
\* (sync.cpp:43-54) of handleTimeBeacon(masterTime)
HandleBeacon(masterTime) ==
    /\ \E calculatedOffset \in CalculatedOffsets(masterTime, wall) :
          LET f == BeaconFields(calculatedOffset)
          IN  /\ timeOffset' = f.timeOffset
              /\ lastBeacon' = f.lastBeacon
              /\ isSynced' = f.isSynced
    /\ sbeacon' = [set |-> TRUE, master |-> masterTime, at |-> wall,
                   again |-> sbeacon.set /\ sbeacon.master # masterTime]

\* SyncManager::now()
SNow ==
    /\ slast' = Returned("now", 0, NowValue(wall, timeOffset))
    /\ UNCHANGED <<timeOffset, lastBeacon, nodeLatencies, isSynced, wall, spc, sbeacon,
                   notSync>>

\* SyncManager::handleTimeBeacon(masterTime)
SHandleTimeBeacon ==
    /\ \E masterTime \in MasterTimes :
          /\ HandleBeacon(masterTime)
          /\ slast' = Returned("handleTimeBeacon", masterTime, TRUE)
    /\ spc' = Interleave(spc)
    /\ UNCHANGED <<nodeLatencies, wall, notSync>>

\* SyncManager::isSynchronized()
SIsSynchronized ==
    /\ slast' = Returned("isSynchronized", 0, IsSynchronizedValue(lastBeacon, isSynced))
    /\ UNCHANGED <<timeOffset, lastBeacon, nodeLatencies, isSynced, wall, spc, sbeacon,
                   notSync>>

\* SyncManager::updateNodeLatency(nodeId, latency)
SUpdateNodeLatency ==
    /\ \E nodeId \in SyncNodeIds, latency \in Latencies :
          /\ nodeLatencies' = UpsertLatency(nodeLatencies, nodeId, latency)
          /\ slast' = Returned("updateNodeLatency", latency, 0)
    /\ spc' = Interleave(spc)
    /\ UNCHANGED <<timeOffset, lastBeacon, isSynced, wall, sbeacon, notSync>>

\* SyncManager::getAverageLatency()
SGetAverageLatency ==
    /\ slast' = Returned("getAverageLatency", 0, AverageLatency(nodeLatencies))
    /\ UNCHANGED <<timeOffset, lastBeacon, nodeLatencies, isSynced, wall, spc, sbeacon,
                   notSync>>

\* SyncManager::calculateBufferAdjustment(nodeLatency)
SCalculateBufferAdjustment ==
    /\ \E nodeLatency \in AdjustInputs :
          slast' = Returned("calculateBufferAdjustment", nodeLatency,
                            CalculateBufferAdjustment(nodeLatency))
    /\ UNCHANGED <<timeOffset, lastBeacon, nodeLatencies, isSynced, wall, spc, sbeacon,
                   notSync>>

\* SyncManager::getOptimalBufferSize()
SGetOptimalBufferSize ==
    /\ slast' = Returned("getOptimalBufferSize", 0, OptimalBufferSize(nodeLatencies))
    /\ UNCHANGED <<timeOffset, lastBeacon, nodeLatencies, isSynced, wall, spc, sbeacon,
                   notSync>>

\* emergencySync(masterTime): bool result = handleTimeBeacon(masterTime)
SEmergencySyncBeacon ==
    /\ spc.phase = "idle"
    /\ \E masterTime \in MasterTimes :
          /\ HandleBeacon(masterTime)
          /\ spc' = [phase |-> "clear", master |-> masterTime, at |-> wall,
                     interleaved |-> FALSE]
          /\ slast' = [Returned("emergencySync:handleTimeBeacon", masterTime, TRUE)
                          EXCEPT !.clean = FALSE]
    /\ UNCHANGED <<nodeLatencies, wall, notSync>>

\* emergencySync(masterTime): lock syncMutex again, nodeLatencies->clear(), return
SEmergencySyncClear ==
    /\ spc.phase = "clear"
    /\ nodeLatencies' = Cleared(nodeLatencies)
    /\ slast' = [op |-> "emergencySync", arg |-> spc.master, ret |-> TRUE, at |-> spc.at,
                 clean |-> ~spc.interleaved]
    /\ spc' = SyncIdlePc
    /\ UNCHANGED <<timeOffset, lastBeacon, isSynced, wall, sbeacon, notSync>>

\* The system clock advances
STick ==
    /\ wall < MaxWall
    /\ wall' = wall + 1
    /\ UNCHANGED <<timeOffset, lastBeacon, nodeLatencies, isSynced, spc, sbeacon, slast,
                   notSync>>

SyncNext ==
    \/ SNow
    \/ SHandleTimeBeacon
    \/ SIsSynchronized
    \/ SUpdateNodeLatency
    \/ SGetAverageLatency
    \/ SCalculateBufferAdjustment
    \/ SGetOptimalBufferSize
    \/ SEmergencySyncBeacon
    \/ SEmergencySyncClear
    \/ STick

SyncIdle == SyncInit

(***************************************************************************)
(* SyncEngine (src/src/core_audio/sync_engine.cpp) and the AudioStream it  *)
(* owns (src/src/core_audio/audio_stream.cpp).  What PortAudio answers to  *)
(* a call is an input of the step.                                         *)
(***************************************************************************)
InitialBufferMs == 20

PaOutcomes    == {"paNoError", "error"}
EngineOffsets == {-1, 0, 1}
BufferMsArgs  == 0..MaxMs

\* AudioStream(sample_rate, channels, buffer_ms, time_provider) when initAudio
\* does not throw: the stream is open and not started
NewAudioStream(sample_rate, channels, buffer_ms) ==
    [buffer    |-> ABNew(sample_rate, channels, buffer_ms),
     stream    |-> "stopped",
     is_active |-> FALSE]

\* SyncEngine(sample_rate, channels, initial_buffer_ms)
NewSyncEngine(sample_rate, channels) ==
    [sample_rate     |-> sample_rate,
     channels        |-> channels,
     time_offset     |-> 0,
     is_active       |-> FALSE,
     is_synchronized |-> FALSE,
     audio_stream    |-> <<>>,
     time_provider   |-> "empty"]

\* AudioStream::startStream: throws when Pa_StartStream fails
StartStream(s, outcome) ==
    IF outcome # "paNoError"
    THEN [stream |-> s, exc |-> "runtime_error"]
    ELSE [stream |-> [s EXCEPT !.stream = "started", !.is_active = TRUE], exc |-> "none"]

\* AudioStream::stopStream: a failure of Pa_StopStream is only logged
StopStream(s, outcome) ==
    [s EXCEPT !.is_active = FALSE,
              !.stream = IF outcome = "paNoError" THEN "stopped" ELSE @]

\* SyncEngine::initialize
Initialize(e, outcome) ==
    LET e1 == [e EXCEPT !.time_provider = "set"]
    IN  IF outcome # "paNoError"
        THEN [engine |-> e1, exc |-> "runtime_error"]
        ELSE [engine |-> [e1 EXCEPT !.audio_stream =
                             <<NewAudioStream(e.sample_rate, e.channels, InitialBufferMs)>>],
              exc |-> "none"]

\* SyncEngine::start
StartEngine(e, optimal_buffer_ms, outcome) ==
    IF e.audio_stream = <<>>
    THEN [engine |-> e, exc |-> "runtime_error"]
    ELSE
    LET s0 == e.audio_stream[1]
        r  == SetBufferSizeMs(s0.buffer, optimal_buffer_ms)
        s1 == [s0 EXCEPT !.buffer = r.ab]
    IN  IF r.err
        THEN [engine |-> e, exc |-> "invalid_argument"]
        ELSE LET st == StartStream(s1, outcome)
             IN  IF st.exc # "none"
                 THEN [engine |-> [e EXCEPT !.audio_stream = <<st.stream>>], exc |-> st.exc]
                 ELSE [engine |-> [e EXCEPT !.audio_stream = <<st.stream>>,
                                            !.is_active = TRUE],
                       exc |-> "none"]

\* SyncEngine::stop: the engine after the call, and whether the call stopped it
StopEngine(e, outcome) ==
    IF e.audio_stream # <<>> /\ e.is_active
    THEN [engine |-> [e EXCEPT !.audio_stream = <<StopStream(e.audio_stream[1], outcome)>>,
                               !.is_active = FALSE],
          stopped |-> TRUE]
    ELSE [engine |-> e, stopped |-> FALSE]

\* SyncEngine::updateSyncState
UpdateSyncState(e, is_synced, time_offset) ==
    [e EXCEPT !.is_synchronized = is_synced, !.time_offset = time_offset]

\* SyncEngine::writeAudioData
WriteAudioData(e, data, frames, source_timestamp) ==
    IF e.audio_stream = <<>>
    THEN [engine |-> e, ret |-> 0]
    ELSE LET w == WriteSamples(e.audio_stream[1].buffer, data, frames, source_timestamp)
         IN  [engine |-> [e EXCEPT !.audio_stream = <<[@[1] EXCEPT !.buffer = w.ab]>>],
              ret    |-> w.ret]

\* The audio data the caller passes: frames * channels samples
EngineData(e, frames) == [i \in 1..(frames * e.channels) |-> 1]

\* The frames stored in the stream's buffer
EngineStored(e) ==
    IF e.audio_stream = <<>> THEN 0 ELSE StoredFrames(e.audio_stream[1].buffer)

NoEngineCall == [op |-> "none", arg |-> 0, ret |-> FALSE, exc |-> "none", written |-> 0]

MaxCallbacks == 1   \* invocations of the device callback in one run
MaxStreamMs  == 1   \* buffer_ms of the AudioStream used on its own: 1..MaxStreamMs

\* The output buffer as the device hands it over: nothing in it is defined
Undefined == -1
DeviceBuffer(n) == [i \in 1..n |-> Undefined]

MemsetFromNothing(out, from, n) == out

\* std::memset(out + from, 0, n * sizeof(float))
MemsetFrom(out, from, n) ==
    [i \in DOMAIN out |-> IF i > from /\ i <= from + n THEN 0 ELSE out[i]]

\* AudioStream::paCallback(inputBuffer, outputBuffer, framesPerBuffer, ...) on
\* the stream s; current_time is what get_time_callback returns
PaCallback(s, out, framesPerBuffer, current_time) ==
    LET channels == s.buffer.channels
    IN  IF ~s.is_active
        THEN [stream |-> s, out |-> Memset(out, framesPerBuffer * channels), read |-> 0,
              ret |-> "paContinue"]
        ELSE
        LET r == ReadSamples(s.buffer, out, framesPerBuffer, current_time)
        IN  [stream |-> [s EXCEPT !.buffer = r.ab],
             out    |-> IF r.ret < framesPerBuffer
                        THEN MemsetFrom(r.samples, r.ret * channels,
                                        (framesPerBuffer - r.ret) * channels)
                        ELSE r.samples,
             read   |-> r.ret,
             ret    |-> "paContinue"]

\* The device has not invoked the callback
NoCallback ==
    [called |-> FALSE, frames |-> 0, now |-> 0, out |-> <<>>, read |-> 0, ret |-> "none",
     pre |-> <<>>, count |-> 0]

EngineInit ==
    /\ \E sample_rate \in SampleRates, channels \in ChannelCounts :
           engine = NewSyncEngine(sample_rate, channels)
    /\ everStopped = FALSE
    /\ elast = NoEngineCall
    /\ pa = NoCallback
    /\ astream = NewAudioStream(1000, 1, 1)

EInitialize ==
    \E outcome \in PaOutcomes :
        LET r == Initialize(engine, outcome)
        IN  /\ engine' = r.engine
            /\ elast'  = [op |-> "initialize", arg |-> 0, ret |-> FALSE, exc |-> r.exc, written |-> 0]
            /\ UNCHANGED <<everStopped, pa, astream, notEngine>>

EStart ==
    \E optimal_buffer_ms \in BufferMsArgs, outcome \in PaOutcomes :
        LET r == StartEngine(engine, optimal_buffer_ms, outcome)
        IN  /\ engine' = r.engine
            /\ elast'  = [op |-> "start", arg |-> optimal_buffer_ms, ret |-> FALSE,
                          exc |-> r.exc, written |-> 0]
            /\ UNCHANGED <<everStopped, pa, astream, notEngine>>

\* AudioController::set_buffer_size, with the controller holding this engine
ESetBufferSize ==
    \E buffer_ms \in BufferMsArgs, outcome \in PaOutcomes :
        LET r == StartEngine(engine, buffer_ms, outcome)
        IN  /\ engine' = r.engine
            /\ elast'  = [op |-> "set_buffer_size", arg |-> buffer_ms, ret |-> FALSE,
                          exc |-> r.exc, written |-> 0]
            /\ UNCHANGED <<everStopped, pa, astream, notEngine>>

EStop ==
    \E outcome \in PaOutcomes :
        LET r == StopEngine(engine, outcome)
        IN  /\ engine' = r.engine
            /\ everStopped' = (everStopped \/ r.stopped)
            /\ elast' = [op |-> "stop", arg |-> 0, ret |-> r.stopped, exc |-> "none", written |-> 0]
            /\ UNCHANGED <<pa, astream, notEngine>>

EUpdateSyncState ==
    \E is_synced \in BOOLEAN, time_offset \in EngineOffsets :
        /\ engine' = UpdateSyncState(engine, is_synced, time_offset)
        /\ elast'  = [op |-> "updateSyncState", arg |-> time_offset, ret |-> is_synced,
                      exc |-> "none", written |-> 0]
        /\ UNCHANGED <<everStopped, pa, astream, notEngine>>

EWriteAudioData ==
    \E frames \in 0..MaxFrames, source_timestamp \in Times :
        /\ EngineStored(engine) + frames <= MaxWritten
        /\ LET r == WriteAudioData(engine, EngineData(engine, frames), frames,
                                   source_timestamp)
           IN  /\ engine' = r.engine
               /\ elast'  = [op |-> "writeAudioData", arg |-> frames, ret |-> FALSE,
                             exc |-> "none", written |-> r.ret]
        /\ UNCHANGED <<everStopped, pa, astream, notEngine>>

EIsActive ==
    /\ elast' = [op |-> "isActive", arg |-> 0, ret |-> engine.is_active, exc |-> "none", written |-> 0]
    /\ UNCHANGED <<engine, everStopped, pa, astream, notEngine>>

EngineNext ==
    \/ EInitialize
    \/ EStart
    \/ ESetBufferSize
    \/ EStop
    \/ EUpdateSyncState
    \/ EWriteAudioData
    \/ EIsActive

\* AudioStream(sample_rate, channels, buffer_ms, time_provider)
StreamInit ==
    /\ \E sample_rate \in SampleRates, channels \in ChannelCounts, buffer_ms \in 1..MaxStreamMs :
           astream = NewAudioStream(sample_rate, channels, buffer_ms)
    /\ pa = NoCallback
    /\ engine = NewSyncEngine(1000, 1)
    /\ everStopped = FALSE
    /\ elast = NoEngineCall

\* AudioStream::startStream()
SStartStream ==
    /\ \E outcome \in PaOutcomes : astream' = StartStream(astream, outcome).stream
    /\ UNCHANGED <<engine, everStopped, elast, pa, notEngine>>

\* AudioStream::stopStream()
SStopStream ==
    /\ \E outcome \in PaOutcomes : astream' = StopStream(astream, outcome)
    /\ UNCHANGED <<engine, everStopped, elast, pa, notEngine>>

\* AudioStream::writeAudio(data, frames, timestamp)
SWriteAudio ==
    /\ \E frames \in 0..MaxFrames, timestamp \in Times :
           astream' = [astream EXCEPT !.buffer =
                          WriteSamples(@, [i \in 1..(frames * @.channels) |-> 1],
                                       frames, timestamp).ab]
    /\ UNCHANGED <<engine, everStopped, elast, pa, notEngine>>

\* The device invokes the callback of the opened stream
SPaCallback ==
    /\ pa.count < MaxCallbacks
    /\ \E framesPerBuffer \in 0..MaxFrames, current_time \in Times :
           LET c == PaCallback(astream,
                               DeviceBuffer(framesPerBuffer * astream.buffer.channels),
                               framesPerBuffer, current_time)
           IN  /\ astream' = c.stream
               /\ pa' = [called |-> TRUE, frames |-> framesPerBuffer, now |-> current_time,
                         out |-> c.out, read |-> c.read, ret |-> c.ret, pre |-> <<astream>>,
                         count |-> pa.count + 1]
    /\ UNCHANGED <<engine, everStopped, elast, notEngine>>

\* A stream that is written to while the device plays
CallbackNext ==
    \/ SStartStream
    \/ SStopStream
    \/ SWriteAudio
    \/ SPaCallback

EngineIdle ==
    /\ engine = NewSyncEngine(1000, 1)
    /\ everStopped = FALSE
    /\ elast = NoEngineCall
    /\ pa = NoCallback
    /\ astream = NewAudioStream(1000, 1, 1)

(***************************************************************************)
(* MeshCrypto (src/src/protocol/crypto.cpp)                                *)
(*                                                                         *)
(* Byte strings are sequences of bytes with the lengths of the source; a   *)
(* byte is ByteBits wide, so the model's uint64_t (8 bytes) has            *)
(* 2^(8*ByteBits) values.  AES-256 and Ed25519 are replaced by fixed keyed *)
(* functions over a prime field; what is kept of AES-GCM is its structure: *)
(* a keystream XORed onto the payload and a polynomial tag over the        *)
(* ciphertext, masked with the nonce.                                      *)
(***************************************************************************)
ByteBits   == 2     \* width of the model's uint8_t
MaxPayload == 1     \* payloads passed to encrypt have 0..MaxPayload bytes
MaxEncrypts == 1    \* encrypt / generateSecurityToken calls on one instance in one run
MaxNonces  == 257   \* encrypt calls in a run that watches the nonces
MaxMarked  == 2     \* the calls whose nonce such a run may remember: the first MaxMarked

NonceBytes     == 12
TagBytes       == 16
SignBytes      == 64
PublicKeyBytes == 32
WordBytes      == 8
CounterBytes   == 4
MsPerSecond    == 1000
FieldPrime     == 32749

ByteMod == 2^ByteBits
WordMod == ByteMod^WordBytes
Bytes   == 0..(ByteMod - 1)

\* std::memcpy(dst, &value, n) on a little-endian target: the n low bytes of value
RECURSIVE ToBytes(_, _)
ToBytes(value, n) ==
    IF n = 0 THEN <<>> ELSE <<value % ByteMod>> \o ToBytes(value \div ByteMod, n - 1)

\* std::memcpy(&value, src, Len(src))
RECURSIVE FromBytesAt(_, _)
FromBytesAt(src, i) ==
    IF i > Len(src) THEN 0 ELSE src[i] + ByteMod * FromBytesAt(src, i + 1)

FromBytes(src) == FromBytesAt(src, 1)

RECURSIVE XorBits(_, _, _)
XorBits(a, b, n) ==
    IF n = 0 THEN 0 ELSE ((a + b) % 2) + 2 * XorBits(a \div 2, b \div 2, n - 1)

Xor(a, b) == XorBits(a, b, ByteBits)

\* Horner evaluation of the bytes of s at the point h, in the field: each
\* byte b takes the accumulator x to (x + b + 1) * h.  Segment(s, h, a, b) is
\* the pair <<m, c>> such that the bytes s[a..b] take x to x * m + c.
RECURSIVE Segment(_, _, _, _)
Segment(s, h, a, b) ==
    IF a > b THEN <<1, 0>>
    ELSE IF a = b THEN <<h % FieldPrime, ((s[a] + 1) * h) % FieldPrime>>
    ELSE LET mid   == (a + b) \div 2
             left  == Segment(s, h, a, mid)
             right == Segment(s, h, mid + 1, b)
         IN  <<(left[1] * right[1]) % FieldPrime,
               (left[2] * right[1] + right[2]) % FieldPrime>>

Poly(s, h, init) ==
    LET seg == Segment(s, h, 1, Len(s))
    IN  (init * seg[1] + seg[2]) % FieldPrime

\* The block cipher under key, applied to the counter block i of the nonce
\* whose digest is iv
BlockCipher(key, iv, i) == (((iv + i + 1) * (7 + 2 * key)) + key) % FieldPrime

\* GCM: the initial counter block, the hash subkey (never 0), the keystream
\* byte i and the tag
CounterBlock(key, nonce) == Poly(nonce, 7 + 2 * key, key)
HashSubkey(key) == 1 + (BlockCipher(key, 0, 0) % (FieldPrime - 1))
Keystream(key, iv, i) == BlockCipher(key, iv, i) % ByteMod
GcmTag(key, nonce, ciphertext) ==
    ToBytes((Poly(ciphertext, HashSubkey(key), Len(ciphertext))
                 + BlockCipher(key, CounterBlock(key, nonce), 0)) % FieldPrime, TagBytes)

\* EVP_EncryptUpdate / EVP_DecryptUpdate in GCM mode
GcmCryptWith(key, iv, text) == [i \in 1..Len(text) |-> Xor(text[i], Keystream(key, iv, i))]
GcmCrypt(key, nonce, text) == GcmCryptWith(key, CounterBlock(key, nonce), text)

\* crypto_sign_keypair, crypto_sign_detached, crypto_sign_verify_detached
PublicKeyOf(secretKey) == ToBytes(secretKey, PublicKeyBytes)
SignDetached(message, secretKey) ==
    ToBytes(Poly(message, 11 + 2 * secretKey, secretKey), SignBytes)
VerifyDetached(signature, message, publicKey) ==
    signature = SignDetached(message, FromBytes(publicKey))

\* MeshCrypto::MeshCrypto, with the random keys as inputs
NewMeshCrypto(networkKey, secretKey) ==
    [networkKey      |-> networkKey,
     signingKeys     |-> secretKey,
     knownPublicKeys |-> <<>>,
     nonceCounter    |-> 0]

\* MeshCrypto::generateNonce
NonceOf(timestamp, counter) ==
    ToBytes(timestamp, WordBytes) \o SubSeq(ToBytes(counter, WordBytes), 1, CounterBytes)

GenerateNonce(c, timestamp) ==
    LET counter == (c.nonceCounter + 1) % WordMod
    IN  [crypto |-> [c EXCEPT !.nonceCounter = counter],
         nonce  |-> NonceOf(timestamp, counter)]

\* result: nonce + ciphertext + tag
EnvelopeTagFirst(nonce, ciphertext, tag) == nonce \o tag \o ciphertext

Envelope(nonce, ciphertext, tag) == nonce \o ciphertext \o tag

\* MeshCrypto::encrypt
Encrypt(c, payload, timestamp) ==
    LET g == GenerateNonce(c, timestamp)
        ciphertext == GcmCrypt(c.networkKey, g.nonce, payload)
        tag == GcmTag(c.networkKey, g.nonce, ciphertext)
    IN  [crypto |-> g.crypto, out |-> Envelope(g.nonce, ciphertext, tag)]

NoError == [type |-> "none", what |-> "none"]
CryptoError(type, what) == [type |-> type, what |-> what]

\* MeshCrypto::decrypt
Decrypt(c, encryptedData) ==
    IF Len(encryptedData) < NonceBytes + TagBytes
    THEN [exc |-> CryptoError("Decryption", "too short"), out |-> <<>>]
    ELSE
    LET nonce == SubSeq(encryptedData, 1, NonceBytes)
        tag   == SubSeq(encryptedData, Len(encryptedData) - TagBytes + 1, Len(encryptedData))
        ciphertext == SubSeq(encryptedData, NonceBytes + 1, Len(encryptedData) - TagBytes)
        plaintext  == GcmCrypt(c.networkKey, nonce, ciphertext)
    IN  IF tag # GcmTag(c.networkKey, nonce, ciphertext)
        THEN [exc |-> CryptoError("Decryption", "authentication"), out |-> <<>>]
        ELSE [exc |-> NoError, out |-> plaintext]

\* MeshCrypto::sign
Sign(c, message) == SignDetached(message, c.signingKeys)

\* MeshCrypto::verify
Verify(c, nodeId, message, signature) ==
    IF nodeId \notin DOMAIN c.knownPublicKeys
    THEN [exc |-> CryptoError("Verification", "unknown node"), ret |-> FALSE]
    ELSE
    LET publicKey == c.knownPublicKeys[nodeId]
    IN  IF Len(publicKey) # PublicKeyBytes
        THEN [exc |-> CryptoError("Verification", "public key format"), ret |-> FALSE]
        ELSE IF Len(signature) # SignBytes
        THEN [exc |-> CryptoError("Verification", "signature format"), ret |-> FALSE]
        ELSE [exc |-> NoError, ret |-> VerifyDetached(signature, message, publicKey)]

\* MeshCrypto::registerNodeKey
RegisterNodeKey(c, nodeId, publicKey) ==
    [c EXCEPT !.knownPublicKeys =
        [n \in DOMAIN @ \cup {nodeId} |-> IF n = nodeId THEN publicKey ELSE @[n]]]

\* MeshCrypto::getPublicKey
GetPublicKey(c) == PublicKeyOf(c.signingKeys)

\* uint64_t expiry = timestamp + (ttlSeconds * 1000)
ExpiryOf(timestamp, ttlSeconds) ==
    (timestamp + ((ttlSeconds * MsPerSecond) % WordMod)) % WordMod

\* MeshCrypto::generateSecurityToken
GenerateSecurityToken(c, nodeId, ttlSeconds, timestamp) ==
    LET expiry    == ExpiryOf(timestamp, ttlSeconds)
        tokenData == nodeId \o ToBytes(timestamp, WordBytes) \o ToBytes(expiry, WordBytes)
        signature == Sign(c, tokenData)
    IN  Encrypt(c, tokenData \o signature, timestamp)

NoToken == [nodeId |-> <<>>, expiry |-> 0]

\* MeshCrypto::verifySecurityToken
VerifySecurityToken(c, token, current) ==
    LET d == Decrypt(c, token)
        decrypted == d.out
        minSize == WordBytes + WordBytes + SignBytes
    IN  IF d.exc # NoError THEN [exc |-> d.exc, ret |-> NoToken]
        ELSE IF Len(decrypted) < minSize
        THEN [exc |-> CryptoError("Verification", "token format"), ret |-> NoToken]
        ELSE
        LET signature == SubSeq(decrypted, Len(decrypted) - SignBytes + 1, Len(decrypted))
            data == SubSeq(decrypted, 1, Len(decrypted) - SignBytes)
            nodeIdSize == Len(data) - 2 * WordBytes
            nodeId == SubSeq(data, 1, nodeIdSize)
            expiry == FromBytes(SubSeq(data, nodeIdSize + WordBytes + 1,
                                       nodeIdSize + 2 * WordBytes))
        IN  IF current > expiry
            THEN [exc |-> CryptoError("Verification", "expired"), ret |-> NoToken]
            ELSE
            LET v == Verify(c, nodeId, data, signature)
            IN  IF v.exc # NoError THEN [exc |-> v.exc, ret |-> NoToken]
                ELSE IF ~v.ret
                THEN [exc |-> CryptoError("Verification", "bad signature"), ret |-> NoToken]
                ELSE [exc |-> NoError, ret |-> [nodeId |-> nodeId, expiry |-> expiry]]

CryptoIds    == {"p", "q"}
NetworkKeys  == {1, 2}
SecretKeyOf  == [i \in CryptoIds |-> IF i = "p" THEN 1 ELSE 2]
TokenNodeIds == {<<1>>, <<2, 1>>}
TtlInputs    == {0, 1}
NonceWalls   == {0, 1}
TokenWalls   == {MsPerSecond - 1, MsPerSecond, MsPerSecond + 1}

RECURSIVE SeqsUpTo(_)
SeqsUpTo(n) ==
    IF n = 0 THEN {<<>>}
    ELSE LET shorter == SeqsUpTo(n - 1)
         IN  shorter \cup {Append(s, b) : s \in {t \in shorter : Len(t) = n - 1}, b \in Bytes}

Payloads == {s \in SeqsUpTo(MaxPayload) : \A k \in 1..Len(s) : s[k] \in {0, ByteMod - 1}}

NoEnvelope == [set |-> FALSE, bytes |-> <<>>, by |-> "p", payload |-> <<>>, flipped |-> FALSE]
NoIssued   == [set |-> FALSE, bytes |-> <<>>, by |-> "p", nodeId |-> <<>>, ttl |-> 0, issued |-> 0]
NoMarked   == [set |-> FALSE, by |-> "p", call |-> 0, nonce |-> <<>>]
NoCryptoCall ==
    [op |-> "none", inst |-> "p", exc |-> NoError, out |-> <<>>, ret |-> NoToken, at |-> 0,
     call |-> 0, env |-> NoEnvelope, tok |-> NoIssued]

\* The envelope with one bit of the byte at pos flipped
FlipBit(bytes, pos, bit) == [bytes EXCEPT ![pos] = Xor(@, 2^bit)]

\* The nonce at the front of an envelope
NonceField(bytes) == SubSeq(bytes, 1, NonceBytes)

\* p is made by MeshCrypto(), q by withNetworkKey(p's key) or by MeshCrypto()
CryptoInit ==
    /\ \E k \in NetworkKeys :
           crypto = [i \in CryptoIds |->
                        NewMeshCrypto(IF i = "p" THEN 1 ELSE k, SecretKeyOf[i])]
    /\ cwall    = 0
    /\ envelope = NoEnvelope
    /\ securityToken = NoIssued
    /\ clast    = NoCryptoCall
    /\ marked   = NoMarked

\* encrypt(payload) on instance i; the run may remember the nonce of one of
\* the first maxMarked calls
CEncrypt(i, payloads, maxCalls, maxMarked) ==
    /\ crypto[i].nonceCounter < maxCalls
    /\ \E payload \in payloads :
           LET r == Encrypt(crypto[i], payload, cwall)
               e == [set |-> TRUE, bytes |-> r.out, by |-> i, payload |-> payload,
                     flipped |-> FALSE]
           IN  /\ crypto'   = [crypto EXCEPT ![i] = r.crypto]
               /\ envelope' = e
               /\ clast'    = [NoCryptoCall EXCEPT !.op = "encrypt", !.inst = i, !.out = r.out,
                                                   !.call = r.crypto.nonceCounter, !.env = e]
               /\ \/ marked' = marked
                  \/ /\ r.crypto.nonceCounter <= maxMarked
                     /\ marked' = [set |-> TRUE, by |-> i, call |-> r.crypto.nonceCounter,
                                   nonce |-> NonceField(r.out)]
    /\ UNCHANGED <<cwall, securityToken, notCrypto>>

\* One bit of the ciphertext of the envelope in flight is flipped
CTamper ==
    /\ envelope.set /\ ~envelope.flipped
    /\ \E pos \in (NonceBytes + 1)..(Len(envelope.bytes) - TagBytes), bit \in 0..(ByteBits - 1) :
           envelope' = [envelope EXCEPT !.bytes = FlipBit(@, pos, bit), !.flipped = TRUE]
    /\ UNCHANGED <<crypto, cwall, securityToken, clast, marked, notCrypto>>

\* decrypt(envelope) on instance j
CDecrypt(j) ==
    /\ envelope.set
    /\ LET r == Decrypt(crypto[j], envelope.bytes)
       IN  clast' = [NoCryptoCall EXCEPT !.op = "decrypt", !.inst = j, !.exc = r.exc,
                                         !.out = r.out, !.env = envelope]
    /\ UNCHANGED <<crypto, cwall, envelope, securityToken, marked, notCrypto>>

\* registerNodeKey(nodeId, publicKey) on instance i, with the public key of instance k
CRegisterNodeKey(i) ==
    /\ \E nodeId \in TokenNodeIds, k \in CryptoIds :
           crypto' = [crypto EXCEPT ![i] = RegisterNodeKey(@, nodeId, GetPublicKey(crypto[k]))]
    /\ clast' = [NoCryptoCall EXCEPT !.op = "registerNodeKey", !.inst = i]
    /\ UNCHANGED <<cwall, envelope, securityToken, marked, notCrypto>>

\* generateSecurityToken(nodeId, ttlSeconds) on instance i
CGenerateSecurityToken(i) ==
    /\ crypto[i].nonceCounter < MaxEncrypts
    /\ \E nodeId \in TokenNodeIds, ttlSeconds \in TtlInputs :
           LET r == GenerateSecurityToken(crypto[i], nodeId, ttlSeconds, cwall)
               t == [set |-> TRUE, bytes |-> r.out, by |-> i, nodeId |-> nodeId,
                     ttl |-> ttlSeconds, issued |-> cwall]
           IN  /\ crypto' = [crypto EXCEPT ![i] = r.crypto]
               /\ securityToken' = t
               /\ clast'  = [NoCryptoCall EXCEPT !.op = "generateSecurityToken", !.inst = i,
                                                 !.out = r.out, !.at = cwall,
                                                 !.call = r.crypto.nonceCounter, !.tok = t]
    /\ UNCHANGED <<cwall, envelope, marked, notCrypto>>

\* verifySecurityToken(token) on instance j
CVerifySecurityToken(j) ==
    /\ securityToken.set
    /\ LET r == VerifySecurityToken(crypto[j], securityToken.bytes, cwall)
       IN  clast' = [NoCryptoCall EXCEPT !.op = "verifySecurityToken", !.inst = j,
                                         !.exc = r.exc, !.ret = r.ret, !.at = cwall,
                                         !.tok = securityToken]
    /\ UNCHANGED <<crypto, cwall, envelope, securityToken, marked, notCrypto>>

\* std::chrono::system_clock is read by currentTimestamp; it can be set to any time
ClockStep(walls) ==
    /\ \E w \in walls \ {cwall} : cwall' = w
    /\ UNCHANGED <<crypto, envelope, securityToken, clast, marked, notCrypto>>

CryptoNext ==
    \/ \E i \in CryptoIds : CEncrypt(i, Payloads, MaxEncrypts, 0)
    \/ CTamper
    \/ \E j \in CryptoIds : CDecrypt(j)
    \/ ClockStep(NonceWalls)

TokenNext ==
    \/ CGenerateSecurityToken("p")
    \/ CRegisterNodeKey("p")
    \/ CVerifySecurityToken("p")
    \/ ClockStep(TokenWalls \cup {0})

NonceNext ==
    \/ CEncrypt("p", {<<>>}, MaxNonces, MaxMarked)
    \/ ClockStep(NonceWalls)

CryptoIdle ==
    /\ crypto   = [i \in CryptoIds |-> NewMeshCrypto(1, SecretKeyOf[i])]
    /\ cwall    = 0
    /\ envelope = NoEnvelope
    /\ securityToken = NoIssued
    /\ clast    = NoCryptoCall
    /\ marked   = NoMarked

(***************************************************************************)
(* An AudioBuffer used by several threads  (buffer.hpp:207-343)            *)
(*                                                                         *)
(* write_samples and set_buffer_size_ms hold mutex_ for their whole body.  *)
(* get_fill_level and get_latency_ms take no lock (buffer.hpp:287-296):    *)
(* they load buffer_ and then read the ring it pointed to, so they are two *)
(* steps that run whatever the other threads are doing.                    *)
(* set_buffer_size_ms is taken statement by statement.                     *)
(***************************************************************************)
MaxRaceCount == 2    \* frames per write_samples: 1..MaxRaceCount

Percent == 100

\* RingBuffer::fill_percentage()
FillPercentage(r) == (r.size * Percent) \div r.capacity

\* AudioBuffer::get_fill_level()
GetFillLevel(a) == FillPercentage(a.buffer)

Getters == {"get_fill_level", "get_latency_ms"}

GetterValue(op, a) == IF op = "get_fill_level" THEN GetFillLevel(a) ELSE GetLatencyMs(a)

\* What size_.load() of a destroyed RingBuffer can give the two getters
FreedReads == {0, 1, Percent}

NoGetter == [op |-> "none", ret |-> 0, freed |-> FALSE, during |-> "idle"]

\* The thread in a getter holds no ring
NoRing == [gpc |-> "idle", gop |-> "none", gring |-> "none"]

RaceInit ==
    /\ cab = [ab |-> ABNew(1000, 1, 1), mutex |-> "free", zpc |-> "idle",
              new_buffer |-> RingNew(1), gpc |-> NoRing.gpc, gop |-> NoRing.gop,
              gring |-> NoRing.gring]
    /\ gcall = NoGetter

\* set_buffer_size_ms(buffer_ms): lock_guard, the zero check, buffer_ms_, buffer_size_,
\* make_unique (buffer.hpp:312-322)
ZBuild ==
    /\ cab.mutex = "free"
    /\ \E buffer_ms \in 0..MaxMs :
          IF buffer_ms = 0
          THEN UNCHANGED cab
          ELSE LET size == cab.ab.samples_per_ms * buffer_ms * cab.ab.channels
               IN  cab' = [cab EXCEPT !.mutex = "resizer", !.zpc = "built",
                                      !.ab.buffer_ms = buffer_ms,
                                      !.ab.buffer_size = size,
                                      !.new_buffer = RingNew(size)]
    /\ UNCHANGED <<gcall, notRace>>

\* set_buffer_size_ms: buffer_->read into temp, new_buffer->write (buffer.hpp:325-329)
ZMove ==
    /\ cab.zpc = "built"
    /\ IF ~RingEmpty(cab.ab.buffer)
       THEN LET r == RingRead(cab.ab.buffer, TempVector(RingSize(cab.ab.buffer)),
                              RingSize(cab.ab.buffer))
            IN  cab' = [cab EXCEPT !.zpc = "moved",
                                   !.ab.buffer = r.ring,
                                   !.new_buffer = RingWrite(cab.new_buffer, r.data, r.ret).ring]
       ELSE cab' = [cab EXCEPT !.zpc = "moved"]
    /\ UNCHANGED <<gcall, notRace>>

\* set_buffer_size_ms: buffer_ = std::move(new_buffer) destroys the old ring; the
\* lock_guard is released (buffer.hpp:331-332)
ZSwap ==
    /\ cab.zpc = "moved"
    /\ cab' = [cab EXCEPT !.zpc = "idle", !.mutex = "free",
                          !.ab.buffer = cab.new_buffer,
                          !.new_buffer = RingNew(1),
                          !.gring = IF cab.gring = "live" THEN "freed" ELSE cab.gring]
    /\ UNCHANGED <<gcall, notRace>>

\* write_samples(samples, count, timestamp), under mutex_ (buffer.hpp:227-238)
ZWriteSamples ==
    /\ cab.mutex = "free"
    /\ \E count \in 1..MaxRaceCount :
          cab' = [cab EXCEPT !.ab = WriteSamples(cab.ab, [i \in 1..(count * cab.ab.channels) |-> 1],
                                                 count, 0).ab]
    /\ UNCHANGED <<gcall, notRace>>

\* get_fill_level() / get_latency_ms(): buffer_.operator->()
GLoad ==
    /\ cab.gpc = "idle"
    /\ \E op \in Getters :
          cab' = [cab EXCEPT !.gpc = "loaded", !.gop = op, !.gring = "live"]
    /\ UNCHANGED <<gcall, notRace>>

\* get_fill_level() / get_latency_ms(): size_.load() of the ring that was loaded
GRead ==
    /\ cab.gpc = "loaded"
    /\ IF cab.gring = "live"
       THEN gcall' = [op |-> cab.gop, ret |-> GetterValue(cab.gop, cab.ab), freed |-> FALSE,
                      during |-> cab.zpc]
       ELSE \E v \in FreedReads :
               gcall' = [op |-> cab.gop, ret |-> v, freed |-> TRUE, during |-> cab.zpc]
    /\ cab' = [cab EXCEPT !.gpc = NoRing.gpc, !.gop = NoRing.gop, !.gring = NoRing.gring]
    /\ UNCHANGED notRace

RaceNext ==
    \/ ZBuild
    \/ ZMove
    \/ ZSwap
    \/ ZWriteSamples
    \/ GLoad
    \/ GRead

RaceIdle == RaceInit

(***************************************************************************)
(* SaberProtocol (src/src/protocol/saber_protocol.cpp) and the AudioSync   *)
(* it owns (sync.cpp:128-176).  The facade's calls come from one thread;   *)
(* the SyncManager it shares is used by other threads meanwhile.           *)
(***************************************************************************)
InitialJitterMs == 20

\* meshNetwork->start() in initialize: the std::thread constructor may throw
StartOutcomes == {"started", "throws"}

NullAudioSync == [set |-> FALSE, jitterBuffer |-> InitialJitterMs, isPlaying |-> FALSE]

\* AudioSync(syncManager, isMusic): jitterBuffer(20), isPlaying(false)
NewAudioSync == [set |-> TRUE, jitterBuffer |-> InitialJitterMs, isPlaying |-> FALSE]

NoFacadeCall == [op |-> "none", ret |-> FALSE, optimal |-> 0]

PlaybackAllowedAlways(hasAudioSync, synced) == hasAudioSync

\* if (!audioSync) return false (saber_protocol.cpp:83-86);
\* if (!syncManager->isSynchronized()) return false (sync.cpp:138-141)
PlaybackAllowed(hasAudioSync, synced) == hasAudioSync /\ synced

\* jitterBuffer = syncManager->getOptimalBufferSize(); isPlaying = true
Started(a, optimal) == [a EXCEPT !.jitterBuffer = optimal, !.isPlaying = TRUE]

\* AudioSync::isPlaybackSynchronized()
IsPlaybackSynchronized(a) == IsSynchronizedValue(lastBeacon, isSynced) /\ a.isPlaying

\* SaberProtocol(config)
FacadeInit ==
    /\ facade = [audioSync |-> NullAudioSync, runtimeThread |-> FALSE, terminated |-> FALSE,
                 pc |-> "idle"]
    /\ flast = NoFacadeCall

\* SaberProtocol::initialize(): replacing a runtimeThread that is joinable ends the process
FInitialize ==
    /\ ~facade.terminated
    /\ facade.pc = "idle"
    /\ \E outcome \in StartOutcomes :
          IF outcome = "throws"
          THEN /\ flast' = [op |-> "initialize", ret |-> FALSE, optimal |-> 0]
               /\ UNCHANGED facade
          ELSE IF facade.runtimeThread
          THEN /\ facade' = [facade EXCEPT !.audioSync = NewAudioSync, !.terminated = TRUE]
               /\ flast' = [op |-> "terminate", ret |-> FALSE, optimal |-> 0]
          ELSE /\ facade' = [facade EXCEPT !.audioSync = NewAudioSync, !.runtimeThread = TRUE]
               /\ flast' = [op |-> "initialize", ret |-> TRUE, optimal |-> 0]
    /\ UNCHANGED <<syncVars, notFacade>>

\* startAudioPlayback(): the null check and, in startPlayback, isSynchronized()
FStartCheck ==
    /\ ~facade.terminated
    /\ facade.pc = "idle"
    /\ IF PlaybackAllowed(facade.audioSync.set, IsSynchronizedValue(lastBeacon, isSynced))
       THEN /\ facade' = [facade EXCEPT !.pc = "synced"]
            /\ UNCHANGED flast
       ELSE /\ flast' = [op |-> "startAudioPlayback", ret |-> FALSE, optimal |-> 0]
            /\ UNCHANGED facade
    /\ UNCHANGED <<syncVars, notFacade>>

\* startPlayback(): getOptimalBufferSize(), jitterBuffer, isPlaying, return true
FStartSet ==
    /\ ~facade.terminated
    /\ facade.pc = "synced"
    /\ LET optimal == OptimalBufferSize(nodeLatencies)
       IN  /\ facade' = [facade EXCEPT !.pc = "idle",
                                       !.audioSync = Started(facade.audioSync, optimal)]
           /\ flast' = [op |-> "startAudioPlayback", ret |-> TRUE, optimal |-> optimal]
    /\ UNCHANGED <<syncVars, notFacade>>

\* stopAudioPlayback()
FStopAudioPlayback ==
    /\ ~facade.terminated
    /\ facade.pc = "idle"
    /\ IF facade.audioSync.set
       THEN /\ facade' = [facade EXCEPT !.audioSync.isPlaying = FALSE]
            /\ flast' = [op |-> "stopAudioPlayback", ret |-> TRUE, optimal |-> 0]
       ELSE /\ flast' = [op |-> "stopAudioPlayback", ret |-> FALSE, optimal |-> 0]
            /\ UNCHANGED facade
    /\ UNCHANGED <<syncVars, notFacade>>

\* AudioSync::isPlaybackSynchronized()
FIsPlaybackSynchronized ==
    /\ ~facade.terminated
    /\ facade.pc = "idle"
    /\ facade.audioSync.set
    /\ flast' = [op |-> "isPlaybackSynchronized", ret |-> IsPlaybackSynchronized(facade.audioSync),
                 optimal |-> 0]
    /\ UNCHANGED <<facade, syncVars, notFacade>>

\* updateTimeSync(masterTime) forwards to handleTimeBeacon; the other threads
\* use the SyncManager that getSyncManager() hands out
FacadeNext ==
    \/ FInitialize
    \/ FStartCheck
    \/ FStartSet
    \/ FStopAudioPlayback
    \/ FIsPlaybackSynchronized
    \/ SHandleTimeBeacon
    \/ SUpdateNodeLatency
    \/ SEmergencySyncBeacon
    \/ SEmergencySyncClear

FacadeIdle == FacadeInit

(***************************************************************************)
(* Specifications                                                          *)
(***************************************************************************)
RingIdle  == ring = RingNew(1) /\ rlast = NoCall /\ rflow = NoFlow
AudioIdle ==
    /\ ab = ABNew(1000, 1, 1)
    /\ alast = NoAudioCall
    /\ aprev = NoPending
    /\ aghost = [t0 |-> 0, written |-> 0, consumed |-> 0, contiguous |-> TRUE]
    /\ serial = 0

SpecRingInit == RingInit /\ AudioIdle /\ MeshIdle /\ SyncIdle /\ EngineIdle /\ CryptoIdle
        /\ RaceIdle /\ FacadeIdle
SpecRingNext == RingNext
SpecRing     == SpecRingInit /\ [][SpecRingNext]_vars

SpecAudioInit == AudioInit /\ RingIdle /\ MeshIdle /\ SyncIdle /\ EngineIdle /\ CryptoIdle
        /\ RaceIdle /\ FacadeIdle
SpecAudioNext == AudioNext
SpecAudio     == SpecAudioInit /\ [][SpecAudioNext]_vars

SpecMeshInit == MeshInit /\ RingIdle /\ AudioIdle /\ SyncIdle /\ EngineIdle /\ CryptoIdle
        /\ RaceIdle /\ FacadeIdle
SpecMeshNext == MeshNext
SpecMesh     == SpecMeshInit /\ [][SpecMeshNext]_vars

\* The scheduler runs every thread that can take a step, and a thread that
\* waits for a mutex gets it when it is free again and again; the worker's
\* wait_for times out after 100 ms.
MeshFairness ==
    /\ SF_vars(Worker)
    /\ \A c \in SeqCaller : SF_vars(StopSteps(c))
FairMesh == SpecMeshInit /\ [][SpecMeshNext]_vars /\ MeshFairness

SpecStartInit == MeshInit /\ RingIdle /\ AudioIdle /\ SyncIdle /\ EngineIdle /\ CryptoIdle
        /\ RaceIdle /\ FacadeIdle
SpecStartNext == StartNext
SpecStart     == SpecStartInit /\ [][SpecStartNext]_vars

SpecHandlerInit == MeshInit /\ RingIdle /\ AudioIdle /\ SyncIdle /\ EngineIdle /\ CryptoIdle
        /\ RaceIdle /\ FacadeIdle
SpecHandlerNext == HandlerNext
SpecHandler     == SpecHandlerInit /\ [][SpecHandlerNext]_vars

SpecConcurrentInit == MeshInit /\ RingIdle /\ AudioIdle /\ SyncIdle /\ EngineIdle /\ CryptoIdle
        /\ RaceIdle /\ FacadeIdle
SpecConcurrentNext == ConcurrentNext
SpecConcurrent     == SpecConcurrentInit /\ [][SpecConcurrentNext]_vars

SpecCallbackInit == StreamInit /\ RingIdle /\ AudioIdle /\ MeshIdle /\ SyncIdle /\ CryptoIdle
        /\ RaceIdle /\ FacadeIdle
SpecCallbackNext == CallbackNext
SpecCallback     == SpecCallbackInit /\ [][SpecCallbackNext]_vars

SpecRegistryInit == MeshInit /\ RingIdle /\ AudioIdle /\ SyncIdle /\ EngineIdle /\ CryptoIdle
        /\ RaceIdle /\ FacadeIdle
SpecRegistryNext == RegistryNext
SpecRegistry     == SpecRegistryInit /\ [][SpecRegistryNext]_vars

SpecSyncInit == SyncInit /\ RingIdle /\ AudioIdle /\ MeshIdle /\ EngineIdle /\ CryptoIdle
        /\ RaceIdle /\ FacadeIdle
SpecSyncNext == SyncNext
SpecSync     == SpecSyncInit /\ [][SpecSyncNext]_vars

SpecEngineInit == EngineInit /\ RingIdle /\ AudioIdle /\ MeshIdle /\ SyncIdle /\ CryptoIdle
        /\ RaceIdle /\ FacadeIdle
SpecEngineNext == EngineNext
SpecEngine     == SpecEngineInit /\ [][SpecEngineNext]_vars

SpecCryptoInit ==
    CryptoInit /\ RingIdle /\ AudioIdle /\ MeshIdle /\ SyncIdle /\ EngineIdle
        /\ RaceIdle /\ FacadeIdle
SpecCryptoNext == CryptoNext
SpecCrypto     == SpecCryptoInit /\ [][SpecCryptoNext]_vars

SpecTokenNext == TokenNext
SpecToken     == SpecCryptoInit /\ [][SpecTokenNext]_vars

SpecNonceNext == NonceNext
SpecNonce     == SpecCryptoInit /\ [][SpecNonceNext]_vars

SpecRaceInit == RaceInit /\ RingIdle /\ AudioIdle /\ MeshIdle /\ SyncIdle /\ EngineIdle
        /\ CryptoIdle /\ FacadeIdle
SpecRaceNext == RaceNext
SpecRace == SpecRaceInit /\ [][SpecRaceNext]_vars

SpecFacadeInit == FacadeInit /\ RingIdle /\ AudioIdle /\ MeshIdle /\ SyncIdle /\ EngineIdle
        /\ CryptoIdle /\ RaceIdle
SpecFacadeNext == FacadeNext
SpecFacade == SpecFacadeInit /\ [][SpecFacadeNext]_vars

(***************************************************************************)
(* Properties of the AudioBuffer (SpecAudio)                               *)
(***************************************************************************)
Zeros(n) == [i \in 1..n |-> 0]

\* The last call was read_samples on a non-empty buffer
ReadOnNonEmpty == alast.op = "read" /\ ~RingEmpty(alast.pre.buffer)

\* C1: read_samples on a non-empty buffer with now < head_timestamp writes
\* frames*channels zeros, returns frames, and leaves the ring contents and
\* head_timestamp unchanged; on an empty buffer it returns 0.
C1_SilenceOnEarly ==
    /\ (ReadOnNonEmpty /\ alast.t < alast.pre.timestamp) =>
           /\ alast.samples = Zeros(alast.count * ab.channels)
           /\ alast.ret = alast.count
           /\ RingContents(ab.buffer) = RingContents(alast.pre.buffer)
           /\ RingSize(ab.buffer) = RingSize(alast.pre.buffer)
           /\ ab.timestamp = alast.pre.timestamp
    /\ (alast.op = "read" /\ RingEmpty(alast.pre.buffer)) => alast.ret = 0

C1_Witness ==
    /\ ReadOnNonEmpty
    /\ alast.t < alast.pre.timestamp
    /\ alast.count = MaxFrames
    /\ StoredFrames(ab) >= 2

\* The scenario of the specification: 48 kHz stereo, 960 frames written at
\* ts=1000, 480 frames read at now=1010
SkipOnLateScenario ==
    LET w == WriteSamples(ABNew(48000, 2, 20), [i \in 1..1920 |-> i], 960, 1000)
        r == ReadSamples(w.ab, Fresh(960), 480, 1010)
    IN  /\ w.ret = 960
        /\ r.ret = 480
        /\ r.samples = [i \in 1..960 |-> 960 + i]
        /\ r.ab.timestamp >= 1020
        /\ RingEmpty(r.ab.buffer)

\* C2: read_samples on a non-empty buffer with delta = now - head_timestamp > 0
\* discards the min(delta*samples_per_ms, stored frames) oldest frames and then
\* returns up to `frames` of the frames that follow, in order.
C2_SkipOnLate ==
    /\ (ReadOnNonEmpty /\ alast.t > alast.pre.timestamp) =>
           LET a      == alast.pre
               before == RingContents(a.buffer)
               skip   == Min((alast.t - a.timestamp) * a.samples_per_ms, StoredFrames(a))
               k      == Min(alast.count, StoredFrames(a) - skip)
           IN  /\ alast.ret = k
               /\ SubSeq(alast.samples, 1, k * a.channels) =
                      SubSeq(before, skip * a.channels + 1, (skip + k) * a.channels)
               /\ RingContents(ab.buffer) =
                      SubSeq(before, (skip + k) * a.channels + 1, Len(before))
    /\ SkipOnLateScenario

\* Some frames are skipped (fewer than are stored) and the ones after them returned
C2_Witness ==
    /\ ReadOnNonEmpty
    /\ alast.t > alast.pre.timestamp
    /\ alast.ret >= 1
    /\ StoredFrames(alast.pre) - StoredFrames(ab) > alast.ret
    /\ ab.channels = 2

\* C3: whenever the ring is non-empty, head_timestamp is the presentation time
\* of the oldest stored frame: for frames written contiguously from timestamp
\* t0, after reads that consumed c frames, head_timestamp = t0 + c / samples_per_ms.
C3_HeadTimestamp ==
    (~RingEmpty(ab.buffer) /\ aghost.contiguous) =>
        ab.timestamp = aghost.t0 + (aghost.consumed \div ab.samples_per_ms)

\* C4: on an empty buffer, writing k frames (k within the capacity) with
\* timestamp t and then reading k frames at now = t returns k and exactly the
\* samples written, in order, and leaves the buffer empty.
RoundTrip ==
    /\ aprev.active
    /\ alast.op = "read"
    /\ alast.count = aprev.count
    /\ alast.t = aprev.t
    /\ aprev.count * ab.channels <= alast.pre.buffer.capacity

C4_RoundTrip ==
    RoundTrip =>
        LET n == aprev.count * ab.channels
        IN  /\ alast.ret = aprev.count
            /\ alast.samples = [i \in 1..n |-> serial - n + i]
            /\ RingEmpty(ab.buffer)

\* A round trip of two frames that wrap around the end of the storage
C4_Witness ==
    /\ RoundTrip
    /\ aprev.count >= 2
    /\ alast.pre.buffer.read_pos + aprev.count * ab.channels > alast.pre.buffer.capacity

\* C26: write_samples sets head_timestamp to ts exactly when the ring is
\* empty on entry; it appends the first min(frames, free frames) frames,
\* returns that number and drops the rest.
C26_WriteSamples ==
    alast.op = "write" =>
        LET pre    == alast.pre
            before == RingContents(pre.buffer)
            free   == (pre.buffer.capacity - Len(before)) \div pre.channels
            k      == Min(alast.count, free)
        IN  /\ alast.ret = k
            /\ ab.timestamp = (IF before = <<>> THEN alast.t ELSE pre.timestamp)
            /\ RingContents(ab.buffer) = before \o SubSeq(alast.samples, 1, k * pre.channels)

\* A write into a non-empty ring that stored some of its frames and dropped
\* the rest, with a timestamp other than the head's
C26_Witness ==
    /\ alast.op = "write"
    /\ ~RingEmpty(alast.pre.buffer)
    /\ 0 < alast.ret /\ alast.ret < alast.count
    /\ alast.t # alast.pre.timestamp

\* C27: set_buffer_size_ms(ms) with ms > 0 leaves a buffer of capacity
\* samples_per_ms * ms * channels that holds all the samples stored before, in
\* the same order, with the same head_timestamp; set_buffer_size_ms(0) fails
\* and changes nothing.
C27_ResizeKeepsSamples ==
    alast.op = "resize" =>
        LET pre == alast.pre
        IN  IF alast.count = 0
            THEN alast.err /\ ab = pre
            ELSE /\ ~alast.err
                 /\ ab.buffer.capacity = pre.samples_per_ms * alast.count * pre.channels
                 /\ RingContents(ab.buffer) = RingContents(pre.buffer)
                 /\ ab.timestamp = pre.timestamp

\* C40: the samples stored in the ring are a whole number of frames after any
\* sequence of write_samples, read_samples, set_buffer_size_ms and clear, and
\* a read takes whole frames out of it.
C40_WholeFrames ==
    /\ RingSize(ab.buffer) % ab.channels = 0
    /\ ab.buffer.capacity % ab.channels = 0
    /\ alast.op = "read" =>
           (RingSize(alast.pre.buffer) - RingSize(ab.buffer)) % ab.channels = 0

\* Two channels: a resize that kept only a part of the stored frames
C40_Witness ==
    /\ ab.channels = 2
    /\ alast.op = "resize" /\ ~alast.err
    /\ 0 < RingSize(ab.buffer) /\ RingSize(ab.buffer) < RingSize(alast.pre.buffer)

(***************************************************************************)
(* Properties of the RingBuffer (SpecRing)                                 *)
(***************************************************************************)
\* C5: after any sequence of write, read, peek and clear calls, in any
\* interleaving of a producer and a consumer, 0 <= size <= capacity and
\* read_pos and write_pos lie in [0, capacity).
C5_RingBounds ==
    /\ 0 <= ring.size /\ ring.size <= ring.capacity
    /\ ring.read_pos \in 0..(ring.capacity - 1)
    /\ ring.write_pos \in 0..(ring.capacity - 1)

\* A write that fills the ring and wraps write_pos around the end of the storage
C5_Witness ==
    /\ rlast.op = "write"
    /\ rlast.ret >= 1
    /\ ring.size = ring.capacity
    /\ ring.write_pos < rlast.pre.write_pos

\* C6: the ring refines a bounded FIFO of capacity N: write appends the first
\* min(n, N - size) elements of src and returns that count; read removes and
\* returns the min(n, size) oldest elements in the order they were written.
C6_RefinesFifo ==
    LET before == RingContents(rlast.pre)
        after  == RingContents(ring)
    IN  /\ rlast.op = "write" =>
               LET k == Min(rlast.count, ring.capacity - Len(before))
               IN  /\ rlast.ret = k
                   /\ after = before \o SubSeq(rlast.data, 1, k)
        /\ rlast.op = "read" =>
               LET k == Min(rlast.count, Len(before))
               IN  /\ rlast.ret = k
                   /\ SubSeq(rlast.data, 1, k) = SubSeq(before, 1, k)
                   /\ after = SubSeq(before, k + 1, Len(before))

\* A read of elements stored across the end of the storage
C6_Witness ==
    /\ rlast.op = "read"
    /\ rlast.ret >= 2
    /\ rlast.pre.read_pos + rlast.ret > ring.capacity
    /\ rlast.data[1] # rlast.data[2]

\* C28: as long as clear is not called, the elements accepted by write are
\* those returned by read plus those still stored: accepted - returned = size.
\* rflow counts from the last clear, so the equality covers every run of
\* calls without a clear.
C28_Conservation == rflow = ring.size

\* Elements accepted, some of them returned by a read, the others still stored
C28_Witness ==
    /\ rlast.op = "read" /\ 0 < rlast.ret
    /\ rflow > 0 /\ ring.size > 0

\* RingBuffer::peek left the ring as it was and returned what read returns
PeekLikeRead ==
    LET r == RingRead(rlast.pre, Fresh(rlast.count), rlast.count)
    IN  /\ ring = rlast.pre
        /\ rlast.ret = r.ret
        /\ rlast.data = r.data

\* C29: peek(dst, n) returns the elements read(dst, n) would return and leaves
\* read_pos, write_pos, size and the stored elements unchanged, so a peek
\* after a peek returns the same.
C29_PeekIsPure ==
    /\ [](rlast.op = "peek" => PeekLikeRead)
    /\ [][(rlast.op = "peek" /\ rlast'.op = "peek" /\ rlast'.count = rlast.count)
              => rlast'.data = rlast.data]_vars

\* A peek of two different elements that wrap around the end of the storage
C29_Witness ==
    /\ rlast.op = "peek" /\ rlast.ret >= 2
    /\ rlast.pre.read_pos + rlast.ret > rlast.pre.capacity
    /\ rlast.data[1] # rlast.data[2]

(***************************************************************************)
(* Properties of the MeshNetwork (SpecMesh, FairMesh)                      *)
(***************************************************************************)
\* The handler was invoked with packet i
Delivered(i) == \E k \in 1..Len(delivered) : delivered[k].id = i

\* Packet i waits in the queue, or in the worker's batch without having been processed
Pending(i) ==
    \/ \E k \in 1..Len(packetQueue) : packetQueue[k].id = i
    \/ \E k \in widx..Len(packetsToProcess) : packetsToProcess[k].id = i

HandlerInstalled == running /\ packetHandler = "ok"

\* C7: while the network is running with a handler installed, every packet passed
\* to send_packet - of any of the five kinds - is eventually passed to the
\* handler, exactly once.
C7_EveryPacketDelivered ==
    /\ [](\A j, k \in 1..Len(delivered) : j # k => delivered[j].id # delivered[k].id)
    /\ \A i \in 1..MaxPackets :
           (HandlerInstalled /\ Pending(i)) ~> (Delivered(i) \/ ~HandlerInstalled)

\* C8: the handler is invoked with the packets in the order in which sendPacket
\* appended them, across the worker's drain batches and with several sending threads.
C8_EnqueueOrder ==
    \A j, k \in 1..Len(delivered) : j < k => delivered[j].id < delivered[k].id

\* Two packets of two sending threads, delivered from two successive batches
C8_Witness ==
    /\ Len(delivered) >= 2
    /\ delivered[1].by # delivered[2].by
    /\ wpc = "dispatch"
    /\ Len(packetsToProcess) = 1
    /\ widx = 2
    /\ packetsToProcess[1].id = delivered[2].id

\* C9: after start, a call to stop always returns, and when it returns running
\* is false and the worker has exited - whatever packets were sent before or
\* during the stop.  (Stated for handlers that do not throw.)
C9_StopReturns ==
    /\ [][\A c \in SeqCaller :
            (cpc[c] # "idle" /\ cpc'[c] = "idle") => (~running' /\ wpc' = "none")]_vars
    /\ \A c \in SeqCaller :
           (cpc[c] # "idle" /\ packetHandler # "throws")
               ~> (cpc[c] = "idle" \/ packetHandler = "throws")

\* C10: a handler that throws does not end the worker.
C10_WorkerSurvivesThrow == terminated # "handler_exception"

\* The packet the worker is processing
CurrentPacket == packetsToProcess[widx]

\* Node n holds the values of a Status packet and was refreshed now
StatusApplied(node, packet, now) ==
    /\ node.present
    /\ node.bufferState = packet.buffer
    /\ node.latency = packet.latency
    /\ node.lastPing = <<now>>

\* C11: when the worker processes a Status packet for a registered node, it sets
\* the node's buffer_state and latency to the packet's values, refreshes its
\* last_ping (so the node is active) and goes on to invoke the handler.
C11_StatusUpdatesNode ==
    [][(WProcUpdate /\ CurrentPacket.type = "Status" /\ nodes[CurrentPacket.source].present)
          => /\ StatusApplied(nodes'[CurrentPacket.source], CurrentPacket, clock)
             /\ IsActive(nodes'[CurrentPacket.source], clock')
             /\ wpc' = "handler"]_vars

\* Node n is registered and the worker processed a Ping or Status from it less
\* than 30 s before now
HeardRecently(n, now) ==
    /\ nodes[n].present
    /\ heard[n] # <<>>
    /\ now - heard[n][1] < ActiveWindow

\* C12: getActiveNodes returns exactly the ids of the registered nodes whose most
\* recent Ping or Status was processed less than 30 s ago.
C12_ActiveNodesExact ==
    [][GetActiveNodes => listing'.ret = {n \in NodeIds : HeardRecently(n, clock)}]_vars

\* C13: when the worker processes a Ping or Status packet whose source is not in
\* the registry, a Node for that id is added, and it is active.
C13_CreatedOnFirstSight ==
    [][(WProcUpdate /\ CurrentPacket.type \in {"Ping", "Status"}
            /\ ~nodes[CurrentPacket.source].present)
          => /\ nodes'[CurrentPacket.source].present
             /\ IsActive(nodes'[CurrentPacket.source], clock')]_vars

\* The dispatch threads that exist: networkThread when it was not joined, and
\* a second one when start constructed a thread while that one was joinable
DispatchWorkers ==
    IF terminated = "thread_replaced" THEN 2
    ELSE IF networkThread = "joinable" THEN 1 ELSE 0

\* C30: start is idempotent: called while running it leaves running true and
\* spawns no worker, so after any sequence of start and stop calls made one
\* after the other at most one dispatch worker exists.
C30_StartIdempotent ==
    /\ [](DispatchWorkers <= 1)
    /\ [][\A c \in SeqCaller :
            (running /\ Start(c, MaxLogged)) =>
                /\ running'
                /\ UNCHANGED <<networkThread, wpc, packetsToProcess, widx, terminated>>]_vars

\* start, start again while running, stop, and start once more
C30_Witness ==
    /\ startlog.spawned >= 2 /\ startlog.returned >= 1
    /\ running /\ networkThread = "joinable" /\ wpc # "none"

\* C31: registerNode(id, role) adds a fresh node, without a last ping and so
\* not active, when id is not registered, and leaves a registered node's
\* role, last ping, latency and buffer state as they are.
C31_RegisterKeepsNode ==
    [][RegisterNode =>
         \A n \in NodeIds :
             IF nodes[n].present
             THEN nodes'[n] = nodes[n]
             ELSE nodes'[n].present =>
                      /\ nodes'[n].lastPing = <<>>
                      /\ nodes'[n].latency = 0 /\ nodes'[n].bufferState = 100
                      /\ ~IsActive(nodes'[n], clock')]_vars

\* A node that registerNode added and that a packet has updated since: the
\* state in which registering it again must change nothing
C31_Witness ==
    \E n \in NodeIds \ {LocalId} :
        /\ nodes[n].present /\ nodes[n].lastPing # <<>>
        /\ nodes[n] # NewNode(n, nodes[n].role)

\* C32: the dispatch worker holds at most one of queueMutex and networkMutex:
\* it has released queueMutex when it processes the drained packets, and it
\* does not hold networkMutex when it takes queueMutex.
C32_OneMutexAtATime ==
    /\ ~(queueMutex = "worker" /\ networkMutex = "worker")
    /\ wpc \in {"dispatch", "update", "handler", "handler_send", "handler_sending",
                "deadlocked"} => queueMutex # "worker"
    /\ wpc \in {"top", "lock_queue", "waiting", "woken"} => networkMutex # "worker"

\* The worker runs the handler under networkMutex while the queue has taken
\* a packet again
C32_Witness ==
    /\ wpc = "handler" /\ networkMutex = "worker" /\ queueMutex = "free"
    /\ packetQueue # <<>>

\* C35: whatever the interleaving of start and stop calls of different
\* threads, at most one dispatch worker exists, stop joins the worker that
\* ran when it cleared running, and start never replaces the handle of a
\* worker that was not joined.
C35_ConcurrentStartStop ==
    /\ DispatchWorkers <= 1
    /\ terminated # "thread_replaced"
    /\ \A c \in Callers : cpc[c] = "stop_join" => networkThread = "joinable"

\* C36: the packet handler may call the operations that take networkMutex
\* (registerNode, updateNodeStatus, getActiveNodes, setPacketHandler) without
\* blocking the worker for ever: the worker does not hold networkMutex while
\* the handler runs, and such a call returns.
C36_HandlerMayCallBack ==
    /\ (wpc \in {"handler", "handler_send", "handler_sending"} /\ packetHandler # "none")
           => networkMutex # "worker"
    /\ packetHandler = "registers" => (wpc # "deadlocked" /\ terminated # "relock_error")

\* Packet i waits in packetQueue
InQueue(i) == \E k \in 1..Len(packetQueue) : packetQueue[k].id = i

\* Packet i is in the batch the worker drained and has not been processed yet
Drained(i) == \E k \in widx..Len(packetsToProcess) : packetsToProcess[k].id = i

\* C38: no packet is lost by stopping the network: a packet accepted while
\* the network is stopped, or still queued when stop takes effect, stays in
\* the queue until the worker drains it, the handler gets the packets in the
\* order of their enqueueing, and every packet the worker has drained is
\* processed before the worker exits.
C38_NoPacketLostByStop ==
    /\ [][\A i \in 1..MaxPackets : InQueue(i) => (InQueue(i)' \/ Drained(i)')]_vars
    /\ [](\A j, k \in 1..Len(delivered) : j < k => delivered[j].id < delivered[k].id)
    /\ \A i \in 1..MaxPackets :
           (Drained(i) /\ packetHandler # "throws")
               ~> (~Drained(i) \/ packetHandler = "throws")

(***************************************************************************)
(* Properties of the SyncManager (SpecSync)                                *)
(***************************************************************************)
\* C14: after handle_time_beacon(M) executed at wall clock W, and with no later
\* beacon, now() evaluated at wall clock W' >= W returns M + (W' - W); of several
\* beacons the one handled last alone determines the result.
C14_TimeOffsetLaw ==
    (slast.op = "now" /\ sbeacon.set)
        => slast.ret = sbeacon.master + (slast.at - sbeacon.at)

\* now() some time after the second of two different beacons, with a negative offset
C14_Witness ==
    /\ slast.op = "now"
    /\ sbeacon.set /\ sbeacon.again
    /\ slast.at > sbeacon.at
    /\ timeOffset < 0

\* C15: after emergency_sync(M) returns, with no concurrent call, the time offset
\* is M minus the wall clock at the call, is_synchronized() is true and
\* node_latencies is empty, so get_average_latency() is none and
\* get_optimal_buffer_size() is 20.
C15_EmergencySync ==
    (slast.op = "emergencySync" /\ slast.clean)
        => /\ timeOffset = slast.arg - slast.at
           /\ IsSynchronizedValue(lastBeacon, isSynced)
           /\ DOMAIN nodeLatencies = {}
           /\ ~AverageLatency(nodeLatencies).some
           /\ OptimalBufferSize(nodeLatencies) = 20

\* emergency_sync has returned, undisturbed, and time has passed since its call
C15_Witness ==
    /\ slast.op = "emergencySync" /\ slast.clean
    /\ wall > slast.at
    /\ timeOffset # 0

\* C16: for all latencies a <= b of the whole unsigned range,
\* calculate_buffer_adjustment(a) <= calculate_buffer_adjustment(b) <= 40.
C16_AdjustmentMonotone ==
    slast.op = "calculateBufferAdjustment"
        => /\ slast.ret <= 40
           /\ \A a \in 0..slast.arg : CalculateBufferAdjustment(a) <= slast.ret

\* The sum of the recorded latencies, in the integers
RECURSIVE ExactSum(_, _)
ExactSum(m, ids) ==
    IF ids = {} THEN 0
    ELSE LET id == CHOOSE x \in ids : TRUE
         IN  m[id] + ExactSum(m, ids \ {id})

\* The mean of the recorded latencies, truncated to an integer
TruncatedMean(m) == ExactSum(m, DOMAIN m) \div Cardinality(DOMAIN m)

LatenciesA == [id \in {"a", "b", "c"} |-> CASE id = "a" -> 12 [] id = "b" -> 18 [] OTHER -> 30]
LatenciesB == [id \in {"a", "b"} |-> IF id = "a" THEN 50 ELSE 60]

\* C17: get_optimal_buffer_size() returns 20 exactly when no node latency is
\* recorded, and otherwise calculate_buffer_adjustment of the average latency
\* truncated to an integer: 30 for the latencies {12, 18, 30}, 40 for {50, 60}.
C17_OptimalBufferSize ==
    /\ slast.op = "getOptimalBufferSize"
          => /\ slast.ret = 20 <=> DOMAIN nodeLatencies = {}
             /\ DOMAIN nodeLatencies # {}
                   => slast.ret = CalculateBufferAdjustment(TruncatedMean(nodeLatencies))
    /\ OptimalBufferSize(LatenciesA) = 30
    /\ OptimalBufferSize(LatenciesB) = 40

\* C18: get_average_latency() returns none iff no node latency is recorded, and
\* otherwise the arithmetic mean (sum divided by count) of the recorded latencies.
C18_AverageIsMean ==
    slast.op = "getAverageLatency"
        => /\ ~slast.ret.some <=> DOMAIN nodeLatencies = {}
           /\ slast.ret.some
                 => slast.ret.num * Cardinality(DOMAIN nodeLatencies)
                       = ExactSum(nodeLatencies, DOMAIN nodeLatencies) * slast.ret.den

\* C19: is_synced implies that last_beacon is set; is_synchronized() is false on
\* a fresh manager and true once a handle_time_beacon or emergency_sync has run.
C19_SyncedImpliesBeacon ==
    /\ isSynced => lastBeacon # <<>>
    /\ IsSynchronizedValue(lastBeacon, isSynced) <=> sbeacon.set
    /\ slast.op = "isSynchronized" => (slast.ret <=> sbeacon.set)

\* is_synchronized() returned true
C19_Witness == slast.op = "isSynchronized" /\ slast.ret = TRUE /\ sbeacon.set


\* C37: emergencySync is atomic with respect to the other SyncManager
\* operations: between its update of the offset and its clearing of the
\* latencies no updateNodeLatency and no getOptimalBufferSize runs, so no
\* latency recorded after the new offset is erased and no thread sees the
\* new offset with the old latencies.
C37_EmergencySyncAtomic ==
    [][spc.phase = "clear" =>
          /\ nodeLatencies' # nodeLatencies => spc'.phase = "idle"
          /\ slast'.op \in {"updateNodeLatency", "getOptimalBufferSize"}
                => slast'.op = slast.op]_vars

(***************************************************************************)
(* Properties of the SyncEngine (SpecEngine)                               *)
(***************************************************************************)
\* The lifecycle state of the engine: Created until initialize has built the
\* audio stream, Running while is_active_ is set, Stopped once stop has
\* stopped it, Initialized otherwise.
Lifecycle ==
    IF engine.audio_stream = <<>> THEN "Created"
    ELSE IF engine.is_active THEN "Running"
    ELSE IF everStopped THEN "Stopped"
    ELSE "Initialized"

LifecycleOrder ==
    {<<"Created", "Initialized">>, <<"Initialized", "Running">>, <<"Running", "Stopped">>}

\* C21: start or write_audio_data on an engine that initialize has not given a
\* stream fails with an error and leaves the engine as it was.
C21_NotInitialized ==
    [][(engine.audio_stream = <<>> /\ elast'.op \in {"start", "writeAudioData"})
          => (elast'.exc = "runtime_error" /\ engine' = engine)]_vars

\* C20: the engine's lifecycle only moves Created -> Initialized -> Running ->
\* Stopped: a call makes the engine Running only from Initialized, and no
\* call (start, or set_buffer_size which calls start) leaves Stopped.
C20_LifecycleOrder ==
    [][Lifecycle' = Lifecycle \/ <<Lifecycle, Lifecycle'>> \in LifecycleOrder]_vars

DecryptWithSameKey ==
    /\ clast.op = "decrypt"
    /\ crypto[clast.inst].networkKey = crypto[clast.env.by].networkKey

\* C22: on instances that share the network key, decrypt returns the payload
\* that encrypt was given, and decrypt of an envelope with one ciphertext bit
\* flipped fails with a Decryption error.
C22_AeadRoundTrip ==
    DecryptWithSameKey =>
        IF clast.env.flipped
        THEN clast.exc.type = "Decryption"
        ELSE clast.exc = NoError /\ clast.out = clast.env.payload

\* Another instance with the same key was given an envelope with a flipped
\* ciphertext bit and refused it
C22_Witness ==
    /\ DecryptWithSameKey
    /\ clast.inst # clast.env.by
    /\ clast.env.flipped
    /\ clast.exc.type = "Decryption"

\* C23: every encrypt call increases nonceCounter, and its nonce differs from
\* the nonce of every earlier encrypt call on the same instance, whatever the
\* clock reads.
C23_NoncesDistinct ==
    [][(clast'.op = "encrypt" /\ crypto' # crypto)
          => /\ crypto'[clast'.inst].nonceCounter > crypto[clast'.inst].nonceCounter
             /\ (marked.set /\ marked.by = clast'.inst)
                    => NonceField(clast'.out) # marked.nonce]_vars

\* The expiry of a token: its issue time plus ttl seconds, in ms
TokenExpiry(t) == t.issued + t.ttl * MsPerSecond

\* C24: verifySecurityToken at a time now >= expiry fails with a Verification
\* error.
C24_ExpiredRejected ==
    (clast.op = "verifySecurityToken" /\ clast.at >= TokenExpiry(clast.tok))
        => clast.exc.type = "Verification"

\* C25: a token generated with ttl > 0 for any node id verifies on the same
\* instance before its expiry, and verification returns the node id and the
\* expiry.
C25_TokenVerifies ==
    (/\ clast.op = "verifySecurityToken"
     /\ clast.tok.by = clast.inst
     /\ clast.tok.ttl > 0
     /\ clast.at < TokenExpiry(clast.tok))
        => /\ clast.exc = NoError
           /\ clast.ret = [nodeId |-> clast.tok.nodeId, expiry |-> TokenExpiry(clast.tok)]


(***************************************************************************)
(* Properties of the AudioBuffer used by several threads                   *)
(***************************************************************************)
\* C33: every AudioBuffer operation, get_fill_level and get_latency_ms included, is
\* serialized with set_buffer_size_ms by mutex_: no getter is between its load of
\* buffer_ and its read of the ring while a resize holds mutex_, and no getter reads
\* a ring that the resize has destroyed.
C33_GettersSerialized ==
    /\ cab.gpc = "loaded" => cab.mutex # "resizer"
    /\ ~gcall.freed

(***************************************************************************)
(* Properties of SaberProtocol                                             *)
(***************************************************************************)
\* C39: startAudioPlayback returns true only when the SyncManager is synchronized.
\* Before initialize it returns false; before any beacon it returns false, isPlaying
\* is false and jitterBuffer is 20; a call that returns false changes neither; a call
\* that returns true has set jitterBuffer to getOptimalBufferSize(), at most 40, and
\* isPlaybackSynchronized() is true.
C39_StartNeedsSync ==
    /\ [](~facade.audioSync.set \/ lastBeacon = <<>> =>
              (flast.op = "startAudioPlayback" => ~flast.ret))
    /\ [](facade.audioSync.set /\ lastBeacon = <<>> =>
              /\ ~facade.audioSync.isPlaying
              /\ facade.audioSync.jitterBuffer = InitialJitterMs)
    /\ [](flast.op = "startAudioPlayback" /\ flast.ret =>
              /\ facade.audioSync.jitterBuffer = flast.optimal
              /\ flast.optimal <= MaxBufferMs
              /\ IsPlaybackSynchronized(facade.audioSync))
    /\ [][flast'.op = "startAudioPlayback" /\ ~flast'.ret
              => facade'.audioSync = facade.audioSync]_vars

C39_Witness ==
    /\ flast.op = "startAudioPlayback"
    /\ flast.ret
    /\ facade.audioSync.jitterBuffer = MaxBufferMs
    /\ nodeLatencies # <<>>

=============================================================================
